---- MODULE Spec2Model ----
(***************************************************************************)
(* Telegram-Archive: the listener's burst protector, the storage adapter,  *)
(* the listener's event handlers and the backup engine, as state machines. *)
(***************************************************************************)
EXTENDS Integers, Sequences, FiniteSets, TLC

\* ------------------------------------------------------------------ bounds
MaxTime == 2
MaxCalls == 4
MaxThreshold == 2
MaxWindow == 2
MaxMsgId == 2
MaxText == 1
MaxBatch == 2
MaxReactions == 2
NumEmoji == 2
NumCallers == 3
MaxDelta == 2
MaxTasks == 2
MaxListenerEvents == 2
MaxBackupEvents == 2
MaxSystemEvents == 2
BatchSize == 1
NumFiles == 2
FullSize == 100
PartSize == 50
NearSize == 99
MaxMediaEvents == 2
MaxSyncId == 3
SyncBatchSize == 2
MaxSyncEvents == 2

\* the chat ids (marked form), message ids and message texts of the model
Chats == {1, 2}

MsgIds == 1..MaxMsgId

Texts == 0..MaxText

VARIABLES
    now,                \* the wall clock, datetime.now(), in whole seconds
    threshold,          \* MassOperationProtector.threshold
    window,             \* MassOperationProtector.window_seconds
    operation_history,  \* MassOperationProtector._operation_history
    blocked,            \* MassOperationProtector._blocked
    pstats,             \* MassOperationProtector.stats
    callLog,            \* history: per chat, the check_operation calls made, <<time, allowed>>
    is_sqlite,          \* DatabaseAdapter._is_sqlite: the embedded store (no foreign-key enforcement)
    chats,              \* the chats table: the ids of its rows
    messages,           \* the messages table: a set of rows [id, chat_id, text]
    reactions,          \* the reactions table: a set of rows [message_id, chat_id, emoji, user_id, count]
    sync_status,        \* the sync_status table: chat_id -> [last_message_id, message_count]
    lastCall,           \* history: the adapter call that returned last, with its arguments
    syncCallers,        \* the concurrent update_sync_status callers: id -> [last_message_id, delta, done]
    config,             \* Config: the include/exclude lists, chat types and listener switches
    upstream,           \* Telegram: per chat, the highest message id posted (ids 1..n exist)
    tracked_chat_ids,   \* TelegramListener._tracked_chat_ids
    lstats,             \* TelegramListener.stats
    tasks,              \* the listener's handler coroutines in flight, each suspended at an await
    lastPublished,      \* the notification the viewer received last
    writesIssued,       \* history: per chat, the delete_message / update_message_text calls the handlers made
    budget,             \* the external events still to come
    dialogs,            \* Telegram: the chats the dialog enumeration returns
    runs,               \* the scheduler's backup runs (startup, cron): where each stands
    backedUpChats,      \* history: the chats a backup run has upserted and pulled
    decision,           \* the last should_backup_chat call: its arguments and its answer
    media,              \* the media table: a set of rows [chat_id, message_id, file_path, file_size, downloaded]
    files,              \* the media root on disk: path -> [kind, size]
    avatars,            \* the avatar files on disk: [type, id] for avatars/<type>/<id>_<photo>.jpg
    upmedia,            \* Telegram: per first message of a chat, the file it carries (0: none) and whether it was deleted
    symlinks,           \* the file system of the media root supports symbolic links
    mediaOp,            \* history: the media operation that returned last, with the state before it
    remote,             \* Telegram: per message id of the synced chat, [present, edit_date, text]
    edit_dates,         \* the messages table: Message.edit_date per message id of the synced chat (0: NULL)
    syncPass,           \* _sync_deletions_and_edits: where the pass stands, and what Telegram answered
    display_chat_ids,   \* viewer config: the DISPLAY_CHAT_IDS whitelist (empty: no restriction)
    active_connections, \* ConnectionManager: the dict websocket -> subscribed chat ids, with its entry order
    alive,              \* the websockets whose client is still there (a send to another raises)
    broadcasts,         \* the broadcast_to_chat calls in flight, each suspended in a send_json
    delivered,          \* history: per websocket, the <<chat id, push number>> updates sent to it
    pushes,             \* history: the POSTs to /internal/push, in order: [host, chat_id, type]
    pushSent,           \* history: the push numbers a Web Push notification was sent for
    lastBroadcast,      \* history: the broadcast_to_chat call that ended last
    response,           \* history: the last HTTP response of the viewer: [endpoint, chat_id, status, chats]
    lifecycle,          \* the TelegramListener object: its client, flags and what its shutdown did
    dialogSort,         \* backup_all's ordering of the dialogs: its inputs and the order it produced
    message_dates,      \* the messages table: Message.date and Message.edit_date per stored message id
    dateCall,           \* history: the last adapter call that carried datetimes, with its arguments
    avatar_dir,         \* the files under <media>/avatars the viewer reads: [folder, chat_id, photo_id, mtime]
    found,              \* history: the last _find_avatar_path call since the directory changed, and its answer
    retry               \* the adapter write in progress: its method, what each attempt gave, the sleeps, how it ended

protectorVars == <<now, threshold, window, operation_history, blocked, pstats, callLog>>

storeVars == <<is_sqlite, chats, messages, reactions, sync_status>>

adapterVars == <<lastCall, syncCallers>>

listenerVars == <<tracked_chat_ids, lstats, tasks, lastPublished, writesIssued>>

envVars == <<config, upstream, budget>>

backupVars == <<dialogs, runs, backedUpChats>>

\* the state of the parts modelled further below
mediaVars == <<media, files, avatars, upmedia, symlinks, mediaOp>>

\* the viewer process (web/main.py)
webVars == <<display_chat_ids, active_connections, alive, broadcasts, delivered,
             pushes, pushSent, lastBroadcast, response>>

\* the state of the functions checked on their own
pureVars == <<dialogSort, message_dates, dateCall, avatar_dir, found, retry>>

viewerVars == <<webVars, lifecycle, pureVars>>

syncPassVars == <<remote, edit_dates, syncPass>>

auxVars == <<decision, mediaVars, syncPassVars, viewerVars>>

vars == <<protectorVars, storeVars, adapterVars, listenerVars, envVars, backupVars, auxVars>>

\* ------------------------------------------------------------ small helpers
Min(a, b) == IF a < b THEN a ELSE b

Max(a, b) == IF a > b THEN a ELSE b

\* dict.pop / del d[k]
DictDel(d, k) == [x \in DOMAIN d \ {k} |-> d[x]]

\* d[k] = v, creating the key when it is missing
DictPut(d, k, v) == [x \in DOMAIN d \cup {k} |-> IF x = k THEN v ELSE d[x]]

\* --------------------------------------------------- MassOperationProtector
\* the state of a fresh protector (__init__)
ProtectorStats0 ==
    [operations_applied |-> 0, operations_blocked |-> 0,
     rate_limits_triggered |-> 0, chats_rate_limited |-> {}]

\* a faulty variant of is_blocked: a block never expires
is_blocked_for_good(blk, chat_id, t) ==
    [blocked |-> chat_id \in DOMAIN blk, blk |-> blk]

\* is_blocked: <<blocked?, _blocked afterwards>>; an expired entry is deleted
is_blocked(blk, chat_id, t) ==
    IF chat_id \in DOMAIN blk
    THEN IF t < blk[chat_id].blocked_until
         THEN [blocked |-> TRUE, blk |-> blk]
         ELSE [blocked |-> FALSE, blk |-> DictDel(blk, chat_id)]
    ELSE [blocked |-> FALSE, blk |-> blk]

\* _record_operation: append now to the chat's deque, creating it when missing
record_operation(hist, chat_id, t) ==
    IF chat_id \in DOMAIN hist
    THEN [hist EXCEPT ![chat_id] = Append(@, t)]
    ELSE DictPut(hist, chat_id, <<t>>)

\* while history and history[0] < cutoff: history.popleft()
RECURSIVE PopOld(_, _)
PopOld(h, cutoff) ==
    IF h # <<>> /\ Head(h) < cutoff THEN PopOld(Tail(h), cutoff) ELSE h

\* a faulty variant of count_ops_in_window: an entry exactly one window old is
\* dropped as well
count_ops_in_window_open(hist, chat_id, t, w) ==
    IF chat_id \in DOMAIN hist
    THEN [hist EXCEPT ![chat_id] = PopOld(@, t - w + 1)]
    ELSE hist

\* _count_ops_in_window: prunes the chat's deque, the count is its length
count_ops_in_window(hist, chat_id, t, w) ==
    IF chat_id \in DOMAIN hist
    THEN [hist EXCEPT ![chat_id] = PopOld(@, t - w)]
    ELSE hist

\* a faulty variant of over_threshold: the limit is hit one operation early
over_threshold_early(ops_in_window, thr) == ops_in_window >= thr

\* if ops_in_window > self.threshold
over_threshold(ops_in_window, thr) == ops_in_window > thr

\* check_operation on protector state P = [hist, blk, stats] at time t with
\* threshold thr and window w: [allowed, hist, blk, stats]
check_operation(P, chat_id, t, thr, w) ==
    LET b == is_blocked(P.blk, chat_id, t) IN
    IF b.blocked
    THEN [allowed |-> FALSE, hist |-> P.hist, blk |-> b.blk,
          stats |-> [P.stats EXCEPT !.operations_blocked = @ + 1]]
    ELSE LET h1 == record_operation(P.hist, chat_id, t)
             h2 == count_ops_in_window(h1, chat_id, t, w)
             ops_in_window == Len(h2[chat_id])
         IN IF over_threshold(ops_in_window, thr)
            THEN [allowed |-> FALSE, hist |-> h2,
                  blk |-> DictPut(b.blk, chat_id,
                                  [blocked_until |-> t + w,
                                   blocked_count |-> ops_in_window - thr]),
                  stats |-> [P.stats EXCEPT
                               !.rate_limits_triggered = @ + 1,
                               !.operations_blocked = @ + 1,
                               !.chats_rate_limited = @ \cup {chat_id}]]
            ELSE [allowed |-> TRUE, hist |-> h2, blk |-> b.blk,
                  stats |-> [P.stats EXCEPT !.operations_applied = @ + 1]]

\* the protector's state as one record
Protector == [hist |-> operation_history, blk |-> blocked, stats |-> pstats]

\* get_blocked_chats: the chats whose block has not expired
get_blocked_chats == {c \in DOMAIN blocked : now < blocked[c].blocked_until}

\* a call of check_operation(chat_id, .) at the current time
CheckOperationCall(chat_id) ==
    /\ Len(callLog[chat_id]) < MaxCalls
    /\ LET r == check_operation(Protector, chat_id, now, threshold, window) IN
        /\ operation_history' = r.hist
        /\ blocked' = r.blk
        /\ pstats' = r.stats
        /\ callLog' = [callLog EXCEPT ![chat_id] = Append(@, <<now, r.allowed>>)]
    /\ UNCHANGED <<now, threshold, window, storeVars, adapterVars, auxVars, listenerVars, envVars, backupVars>>

\* the clock advances by a second
Tick ==
    /\ now < MaxTime
    /\ now' = now + 1
    /\ UNCHANGED <<threshold, window, operation_history, blocked, pstats, callLog>>
    /\ UNCHANGED <<storeVars, adapterVars, auxVars, listenerVars, envVars, backupVars>>

\* an empty store and no adapter call made
StoreEmpty ==
    /\ chats = {}
    /\ messages = {}
    /\ reactions = {}
    /\ sync_status = <<>>

NoCall == [op |-> "none", mid |-> 0, cid |-> 0, rows |-> {}, batch |-> <<>>, before |-> {}]

AdapterIdle ==
    /\ lastCall = NoCall
    /\ syncCallers = <<>>

\* Config.__init__: every id list empty, every chat type backed up, the
\* listener switches as given
Config0 ==
    [global_include_ids |-> {}, global_exclude_ids |-> {},
     private_include_ids |-> {}, private_exclude_ids |-> {},
     groups_include_ids |-> {}, groups_exclude_ids |-> {},
     channels_include_ids |-> {}, channels_exclude_ids |-> {},
     chat_types |-> {"private", "groups", "channels"},
     listen_edits |-> TRUE, listen_deletions |-> TRUE,
     listen_new_messages |-> TRUE, listen_albums |-> TRUE,
     download_media |-> TRUE, max_media_size |-> FullSize,
     deduplicate_media |-> TRUE, verify_media |-> FALSE,
     listen_new_messages_media |-> FALSE, sync_deletions_edits |-> FALSE,
     listen_chat_actions |-> TRUE]

\* TelegramListener.__init__: the counters of the handlers
ListenerStats0 ==
    [edits_received |-> 0, edits_applied |-> 0,
     deletions_received |-> 0, deletions_applied |-> 0, deletions_skipped |-> 0,
     new_messages_received |-> 0, new_messages_saved |-> 0,
     operations_discarded |-> 0, errors |-> 0]

NoNotification == [type |-> "none", chat_id |-> 0, message_id |-> 0, after_commit |-> TRUE]

\* no listener running: nothing tracked, no handler in flight, nothing published
ListenerIdle ==
    /\ tracked_chat_ids = {}
    /\ lstats = ListenerStats0
    /\ tasks = {}
    /\ lastPublished = NoNotification
    /\ writesIssued = [c \in Chats |-> 0]

\* should_backup_chat has not been called
NoDecision == [chat_id |-> 0, kind |-> "none", answer |-> FALSE]

\* the file names _get_media_filename derives from Telegram's file ids
FileNames == 1..NumFiles

\* the directories of the media root: media/_shared and media/<chat_id>
SharedDir == 0

MediaDirs == {SharedDir} \cup Chats

\* a path below the media root: <<directory, file name>>
Paths == MediaDirs \X FileNames

\* Media.file_path is NULL
NoPath == <<SharedDir, 0>>

\* nothing at a path; a regular file of a size; a relative symlink into _shared
NoFile == [kind |-> "none", size |-> 0]

RegularFile(size) == [kind |-> "file", size |-> size]

SymLink == [kind |-> "link", size |-> 0]

\* the messages of Telegram that can carry a file: message 1 of each chat
MediaMsgs == {<<c, 1>> : c \in Chats}

\* no media operation has run
NoMediaOp == [op |-> "none", chat_id |-> 0, message_id |-> 0, outcome |-> "none",
              files |-> <<>>, media |-> {}, failing |-> {}, inaccessible |-> {}]

\* no media was ever ingested
MediaIdle ==
    /\ media = {}
    /\ files = [p \in Paths |-> NoFile]
    /\ avatars = {}
    /\ upmedia = [m \in MediaMsgs |-> [name |-> 0, gone |-> FALSE]]
    /\ symlinks = TRUE
    /\ mediaOp = NoMediaOp

\* the message ids of the chat whose deletions and edits are synced
SyncIds == 1..MaxSyncId

\* a message as Telegram holds it; get_messages returns None when not present
RemoteMsg(present, edit_date, text) ==
    [present |-> present, edit_date |-> edit_date, text |-> text]

\* _sync_deletions_and_edits is not running
NoSyncPass == [pc |-> "idle", local_ids |-> <<>>, local_messages |-> <<>>, next |-> 1,
               returned_null |-> {}, raised |-> {}]

\* no deletion and edit sync is under way
SyncPassIdle ==
    /\ remote = [id \in SyncIds |-> RemoteMsg(TRUE, 0, 0)]
    /\ edit_dates = [id \in SyncIds |-> 0]
    /\ syncPass = NoSyncPass

\* ------------------------------------------------------- the viewer at rest
NumSessions == 3

MaxPushes == 2

MaxWebEvents == 4

\* the websockets that may connect to /ws/updates, numbered in connection order
Sessions == 1..NumSessions

\* ConnectionManager.__init__: an empty dict. order lists the dict's entries
\* as inserted (0: an entry that was deleted), subs maps each key to its set
ActiveConnections0 == [order |-> <<>>, subs |-> <<>>]

NoBroadcast == [n |-> 0, chat_id |-> 0, steady |-> {}, sent |-> {}, raised |-> FALSE]

NoResponse == [endpoint |-> "none", chat_id |-> 0, status |-> 0, chats |-> {}]

\* the viewer has served nothing and nobody is connected
WebIdle ==
    /\ display_chat_ids = {}
    /\ active_connections = ActiveConnections0
    /\ alive = {}
    /\ broadcasts = {}
    /\ delivered = [s \in Sessions |-> {}]
    /\ pushes = <<>>
    /\ pushSent = {}
    /\ lastBroadcast = NoBroadcast
    /\ response = NoResponse

\* no TelegramListener or TelegramBackup object has been made
NoListener ==
    [kind |-> "none", phase |-> "none", has_client |-> FALSE, owns_client |-> FALSE, connected |-> FALSE,
     start_time |-> FALSE, running |-> FALSE, db_closed |-> 0, client_disconnected |-> 0,
     raised |-> "none", was_connected |-> FALSE]

NumDialogs == 3

MaxDate == 2

\* the dialogs of the ordering check
DialogIds == 1..NumDialogs

\* no ordering was asked for
NoDialogSort ==
    [priority_input |-> <<>>, listing |-> <<>>, dates |-> <<>>, order |-> <<>>, done |-> FALSE]

\* datetime values: None, a naive datetime (wall clock reading, in hours), or
\* an aware one (wall clock reading and UTC offset)
NoneDate == [none |-> TRUE, aware |-> FALSE, wall |-> 0, offset |-> 0]

Naive(wall) == [none |-> FALSE, aware |-> FALSE, wall |-> wall, offset |-> 0]

Aware(wall, offset) == [none |-> FALSE, aware |-> TRUE, wall |-> wall, offset |-> offset]

NoDateCall == [op |-> "none", rows |-> <<>>]

\* _find_avatar_path returns None
NoAvatarPath == [folder |-> "none", chat_id |-> 0, photo_id |-> 0]

NoFound == [called |-> FALSE, chat_id |-> 0, chat_type |-> "none", path |-> NoAvatarPath]

\* no adapter write is in progress
NoRetry == [op |-> "none", outcomes |-> <<>>, slept |-> <<>>, delay |-> 0, state |-> "idle"]

\* the functions checked on their own have not been called
PureIdle ==
    /\ dialogSort = NoDialogSort
    /\ message_dates = <<>>
    /\ dateCall = NoDateCall
    /\ avatar_dir = {}
    /\ found = NoFound
    /\ retry = NoRetry

ViewerIdle == WebIdle /\ lifecycle = NoListener /\ PureIdle

\* the parts modelled further below are at rest
AuxIdle ==
    /\ decision = NoDecision
    /\ MediaIdle
    /\ SyncPassIdle
    /\ ViewerIdle

RunIds == {"startup", "cron"}

\* a backup run that is not executing; plan, visited and failed are history:
\* the dialogs the run set out to back up, those _backup_dialog was called
\* for, and those whose _backup_dialog raised
Run0 == [pc |-> "idle", excluded |-> {}, queue |-> <<>>, chat |-> 0, last |-> 0,
         fetched |-> <<>>, todo |-> <<>>, plan |-> {}, visited |-> {}, failed |-> {}]

\* no configuration of interest, nothing posted upstream, no external event to
\* come, no scheduler running
EnvIdle ==
    /\ config = Config0
    /\ upstream = [c \in Chats |-> 0]
    /\ budget = 0
    /\ dialogs = {}
    /\ runs = [r \in RunIds |-> Run0]
    /\ backedUpChats = {}
    /\ AuxIdle

InitProtector ==
    /\ now = 0
    /\ threshold \in 0..MaxThreshold
    /\ window \in 1..MaxWindow
    /\ operation_history = <<>>
    /\ blocked = <<>>
    /\ pstats = ProtectorStats0
    /\ callLog = [c \in Chats |-> <<>>]
    /\ is_sqlite = TRUE
    /\ StoreEmpty
    /\ AdapterIdle
    /\ ListenerIdle
    /\ EnvIdle

NextProtector ==
    \/ Tick
    \/ \E c \in Chats : CheckOperationCall(c)

SpecProtector == InitProtector /\ [][NextProtector]_vars

\* ------------------------------------------------------------------ C1
NumAllowed(L) == Cardinality({i \in 1..Len(L) : L[i][2]})

NumDenied(L) == Cardinality({i \in 1..Len(L) : ~L[i][2]})

\* the calls logged for a chat all lie within one span of `window` seconds
WithinOneSpan(L) == L # <<>> /\ L[Len(L)][1] - L[1][1] <= window

\* C1: of N check_operation calls for a chat made within one span of W seconds,
\* starting from an empty history and no block, exactly min(N, T) are allowed
\* and max(0, N - T) are denied, whatever calls are made for other chats.
C1_BurstCapped ==
    \A c \in Chats :
        WithinOneSpan(callLog[c]) =>
            /\ NumAllowed(callLog[c]) = Min(Len(callLog[c]), threshold)
            /\ NumDenied(callLog[c]) = Max(0, Len(callLog[c]) - threshold)

\* a burst longer than a positive threshold, in one span, with calls for the other chat
C1_Witness ==
    \E c \in Chats :
        /\ threshold >= 1
        /\ WithinOneSpan(callLog[c])
        /\ Len(callLog[c]) > threshold + 1
        /\ NumDenied(callLog[c]) >= 2
        /\ \E d \in Chats \ {c} : callLog[d] # <<>>

\* ---------------------------------------------------------- DatabaseAdapter
\* two rows with the same primary key (id, chat_id)
SameKey(m, r) == m.id = r.id /\ m.chat_id = r.chat_id

\* a faulty variant of upsert_message: INSERT ... ON CONFLICT DO NOTHING
upsert_message_keep_old(msgs, r) ==
    IF \E m \in msgs : SameKey(m, r) THEN msgs ELSE msgs \cup {r}

\* INSERT INTO messages ... ON CONFLICT (id, chat_id) DO UPDATE SET values
upsert_message(msgs, r) == {m \in msgs : ~SameKey(m, r)} \cup {r}

\* ForeignKey('chats.id'): the client/server store enforces it, the embedded
\* store does not (no PRAGMA foreign_keys among the connect-time pragmas)
fk_ok(chs, sqlite, chat_id) == sqlite \/ chat_id \in chs

\* the statements of one batch, in order, inside one transaction
RECURSIVE ExecBatch(_, _)
ExecBatch(msgs, B) ==
    IF B = <<>> THEN msgs ELSE ExecBatch(upsert_message(msgs, Head(B)), Tail(B))

\* insert_messages_batch: the messages table afterwards; a statement that
\* violates the foreign key aborts the transaction and nothing is written
insert_messages_batch(msgs, chs, sqlite, B) ==
    IF \A i \in 1..Len(B) : fk_ok(chs, sqlite, B[i].chat_id)
    THEN ExecBatch(msgs, B)
    ELSE msgs

\* insert_message: one upsert, committed
insert_message(msgs, chs, sqlite, r) ==
    IF fk_ok(chs, sqlite, r.chat_id) THEN upsert_message(msgs, r) ELSE msgs

\* update_message_text: UPDATE messages SET text WHERE chat_id, id
update_message_text(msgs, chat_id, message_id, new_text) ==
    {IF m.chat_id = chat_id /\ m.id = message_id
     THEN [m EXCEPT !.text = new_text] ELSE m : m \in msgs}

\* delete_message: the message row
delete_message(msgs, chat_id, message_id) ==
    {m \in msgs : ~(m.chat_id = chat_id /\ m.id = message_id)}

\* delete_message: the reaction rows of the message
delete_message_reactions(reacts, chat_id, message_id) ==
    {r \in reacts : ~(r.chat_id = chat_id /\ r.message_id = message_id)}

\* the reaction rows stored for a message
ReactionsOf(reacts, message_id, chat_id) ==
    {r \in reacts : r.message_id = message_id /\ r.chat_id = chat_id}

\* Reaction(message_id=..., chat_id=..., emoji, user_id, count) for each supplied reaction
ReactionRows(message_id, chat_id, R) ==
    {[message_id |-> message_id, chat_id |-> chat_id, emoji |-> x.emoji,
      user_id |-> x.user_id, count |-> x.count] : x \in R}

\* insert_reactions: returns at once on an empty list; else deletes the
\* message's rows and adds the supplied ones, in one transaction
insert_reactions(reacts, message_id, chat_id, R) ==
    IF R = {}
    THEN reacts
    ELSE (reacts \ ReactionsOf(reacts, message_id, chat_id))
         \cup ReactionRows(message_id, chat_id, R)

\* get_last_message_id: the row's cursor, 0 without a row
get_last_message_id(ss, chat_id) ==
    IF chat_id \in DOMAIN ss THEN ss[chat_id].last_message_id ELSE 0

\* a faulty variant of update_sync_status: on conflict the count is overwritten
update_sync_status_overwrite(ss, chat_id, last_message_id, message_count) ==
    DictPut(ss, chat_id,
            [last_message_id |-> last_message_id, message_count |-> message_count])

\* update_sync_status: INSERT ... ON CONFLICT (chat_id) DO UPDATE SET
\* last_message_id = excluded, message_count = message_count + excluded
update_sync_status(ss, chat_id, last_message_id, message_count) ==
    IF chat_id \in DOMAIN ss
    THEN [ss EXCEPT ![chat_id] =
            [last_message_id |-> last_message_id,
             message_count |-> @.message_count + message_count]]
    ELSE DictPut(ss, chat_id,
                 [last_message_id |-> last_message_id, message_count |-> message_count])

\* ------------------------------------------------- adapter calls, one by one
\* the message records a caller may pass
MessageRecords == [id : MsgIds, chat_id : Chats, text : Texts]

RECURSIVE SeqsUpTo(_, _)
SeqsUpTo(S, n) ==
    IF n = 0 THEN {<<>>}
    ELSE LET shorter == SeqsUpTo(S, n - 1) IN
         shorter \cup {Append(q, x) : q \in {p \in shorter : Len(p) = n - 1}, x \in S}

BatchInputs == SeqsUpTo(MessageRecords, MaxBatch)

\* the reactions a caller may pass: user_id 0 is NULL (an anonymous tally);
\* uq_reaction allows one row per (emoji, user_id) of a message
ReactionRecords == [emoji : 1..NumEmoji, user_id : 0..1, count : {1}]

ReactionInputs == {R \in SUBSET ReactionRecords : Cardinality(R) <= MaxReactions}

UpsertChatCall(c) ==
    /\ chats' = chats \cup {c}
    /\ lastCall' = [NoCall EXCEPT !.op = "upsert_chat", !.cid = c]
    /\ UNCHANGED <<is_sqlite, messages, reactions, sync_status, syncCallers, protectorVars, listenerVars, envVars, backupVars, auxVars>>

InsertMessagesBatchCall(B) ==
    /\ messages' = insert_messages_batch(messages, chats, is_sqlite, B)
    /\ lastCall' = [NoCall EXCEPT !.op = "insert_messages_batch", !.batch = B,
                                  !.before = messages]
    /\ UNCHANGED <<is_sqlite, chats, reactions, sync_status, syncCallers, protectorVars, listenerVars, envVars, backupVars, auxVars>>

DeleteMessageCall(c, id) ==
    /\ messages' = delete_message(messages, c, id)
    /\ reactions' = delete_message_reactions(reactions, c, id)
    /\ lastCall' = [NoCall EXCEPT !.op = "delete_message", !.cid = c, !.mid = id]
    /\ UNCHANGED <<is_sqlite, chats, sync_status, syncCallers, protectorVars, listenerVars, envVars, backupVars, auxVars>>

InsertReactionsCall(mid, cid, R) ==
    /\ reactions' = insert_reactions(reactions, mid, cid, R)
    /\ lastCall' = [NoCall EXCEPT !.op = "insert_reactions", !.mid = mid, !.cid = cid,
                                  !.rows = R, !.before = reactions]
    /\ UNCHANGED <<is_sqlite, chats, messages, sync_status, syncCallers, protectorVars, listenerVars, envVars, backupVars, auxVars>>

\* caller i runs its update_sync_status: one upsert statement, committed
UpdateSyncStatusCall(i) ==
    /\ ~syncCallers[i].done
    /\ sync_status' = update_sync_status(sync_status, 1,
                                         syncCallers[i].last_message_id, syncCallers[i].delta)
    /\ syncCallers' = [syncCallers EXCEPT ![i].done = TRUE]
    /\ UNCHANGED <<is_sqlite, chats, messages, reactions, lastCall, protectorVars, listenerVars, envVars, backupVars, auxVars>>

ProtectorIdle ==
    /\ now = 0
    /\ threshold = 1
    /\ window = 1
    /\ operation_history = <<>>
    /\ blocked = <<>>
    /\ pstats = ProtectorStats0
    /\ callLog = [c \in Chats |-> <<>>]

InitMessages ==
    /\ ProtectorIdle
    /\ is_sqlite \in BOOLEAN
    /\ StoreEmpty
    /\ AdapterIdle
    /\ ListenerIdle
    /\ EnvIdle

NextMessages ==
    \/ \E c \in Chats : UpsertChatCall(c)
    \/ \E B \in BatchInputs : InsertMessagesBatchCall(B)
    \/ \E c \in Chats, id \in MsgIds : DeleteMessageCall(c, id)

SpecMessages == InitMessages /\ [][NextMessages]_vars

\* the reactions of the messages of one chat
InitReactions ==
    /\ ProtectorIdle
    /\ is_sqlite \in BOOLEAN
    /\ StoreEmpty
    /\ AdapterIdle
    /\ ListenerIdle
    /\ EnvIdle

NextReactions ==
    \/ \E mid \in MsgIds, R \in ReactionInputs : InsertReactionsCall(mid, 1, R)
    \/ \E id \in MsgIds : DeleteMessageCall(1, id)

SpecReactions == InitReactions /\ [][NextReactions]_vars

\* N callers about to call update_sync_status for chat 1, which has no row
InitSync ==
    /\ ProtectorIdle
    /\ is_sqlite \in BOOLEAN
    /\ chats = {1}
    /\ messages = {}
    /\ reactions = {}
    /\ sync_status = <<>>
    /\ lastCall = NoCall
    /\ syncCallers \in [1..NumCallers ->
                          [last_message_id : MsgIds, delta : 0..MaxDelta, done : {FALSE}]]
    /\ ListenerIdle
    /\ EnvIdle

NextSync == \E i \in DOMAIN syncCallers : UpdateSyncStatusCall(i)

SpecSync == InitSync /\ [][NextSync]_vars

\* ------------------------------------------------------------------ C5
RECURSIVE SumDeltas(_)
SumDeltas(S) ==
    IF S = {} THEN 0
    ELSE LET i == CHOOSE x \in S : TRUE IN syncCallers[i].delta + SumDeltas(S \ {i})

CallersDone == {i \in DOMAIN syncCallers : syncCallers[i].done}

\* C5: concurrent update_sync_status calls on a chat without a sync_status row
\* lose no increment: once any have returned, message_count is the sum of their
\* deltas, in every interleaving; with all N returned it is d1 + ... + dN.
C5_NoLostIncrement ==
    CallersDone # {} =>
        /\ 1 \in DOMAIN sync_status
        /\ sync_status[1].message_count = SumDeltas(CallersDone)

\* all callers have returned, with at least two non-zero deltas
C5_Witness ==
    /\ CallersDone = DOMAIN syncCallers
    /\ Cardinality({i \in CallersDone : syncCallers[i].delta > 0}) >= 2
    /\ sync_status[1].message_count = SumDeltas(DOMAIN syncCallers)

\* ------------------------------------------------------------------ C6
\* C6: after insert_reactions(mid, cid, R) returns, the reaction rows stored
\* for (mid, cid) are exactly R, whatever rows existed before, and the rows of
\* other messages are as before the call.
C6_ReactionsEqualSupplied ==
    lastCall.op = "insert_reactions" =>
        /\ ReactionsOf(reactions, lastCall.mid, lastCall.cid)
             = ReactionRows(lastCall.mid, lastCall.cid, lastCall.rows)
        /\ reactions \ ReactionsOf(reactions, lastCall.mid, lastCall.cid)
             = lastCall.before \ ReactionsOf(lastCall.before, lastCall.mid, lastCall.cid)

\* ------------------------------------------------------------------ C7
\* the last record of a batch with a given key
LastWithKey(B, r) ==
    B[CHOOSE i \in 1..Len(B) : SameKey(B[i], r) /\ \A j \in (i+1)..Len(B) : ~SameKey(B[j], r)]

\* C7: applying insert_messages_batch(B) again leaves the store as the first
\* application left it, and (when no record of B names a chat the store would
\* reject) every key of B has exactly one row, holding B's last record for it,
\* whether or not a row with that key was stored before.
C7_BatchIdempotentOverwrite ==
    lastCall.op = "insert_messages_batch" =>
        /\ insert_messages_batch(messages, chats, is_sqlite, lastCall.batch) = messages
        /\ (\A i \in 1..Len(lastCall.batch) : fk_ok(chats, is_sqlite, lastCall.batch[i].chat_id))
             => \A i \in 1..Len(lastCall.batch) :
                   {m \in messages : SameKey(m, lastCall.batch[i])}
                     = {LastWithKey(lastCall.batch, lastCall.batch[i])}

\* a batch has just replaced the text of a row that was stored before the call
C7_Witness ==
    /\ lastCall.op = "insert_messages_batch"
    /\ \E i \in 1..Len(lastCall.batch) : \E old \in lastCall.before :
          /\ SameKey(old, lastCall.batch[i])
          /\ old.text # lastCall.batch[i].text
          /\ lastCall.batch[i] \in messages
          /\ old \notin messages
    /\ ~is_sqlite

\* ================================================================== TelegramListener
\* a deletion event may carry no chat id
NoChat == 0

\* the ids an event may carry: one id, or two distinct ids in either order
IdLists ==
    {<<i>> : i \in MsgIds} \cup {<<p[1], p[2]>> : p \in {q \in MsgIds \X MsgIds : q[1] # q[2]}}

\* a faulty variant of should_process_chat: every chat is processed
should_process_chat_any(tracked, cfg, chat_id) == TRUE

\* _should_process_chat: the chat is tracked, or it is on an include list
should_process_chat(tracked, cfg, chat_id) ==
    \/ chat_id \in tracked
    \/ chat_id \in cfg.global_include_ids
    \/ chat_id \in cfg.private_include_ids
    \/ chat_id \in cfg.groups_include_ids
    \/ chat_id \in cfg.channels_include_ids

\* a faulty variant of HandlerSteps: the notification is sent before the write
HandlerSteps_notify_first(kind) ==
    CASE kind = "delete" -> <<"notify", "delete_message">>
      [] kind = "edit" -> <<"notify", "update_message_text">>
      [] kind = "new" -> <<"upsert_chat", "notify", "insert_message">>
      [] kind = "album" -> <<"insert_message">>
      [] kind = "chat_action" -> <<"upsert_chat">>

\* the awaited calls of a handler, in the order it makes them (for a deletion
\* event and an album: per message)
HandlerSteps(kind) ==
    CASE kind = "delete" -> <<"delete_message", "notify">>
      [] kind = "edit" -> <<"update_message_text", "notify">>
      [] kind = "new" -> <<"upsert_chat", "insert_message", "notify">>
      [] kind = "album" -> <<"insert_message">>
      [] kind = "chat_action" -> <<"upsert_chat">>

\* a handler coroutine suspended before its pc-th awaited call
Task(kind, chat_id, message_id, rest, text, pc) ==
    [kind |-> kind, chat_id |-> chat_id, message_id |-> message_id, rest |-> rest,
     text |-> text, pc |-> pc]

StepOf(t) == HandlerSteps(t.kind)[t.pc]

\* the handler's database write for the current message has returned
WriteReturned(t) ==
    \E j \in 1..(t.pc - 1) :
        HandlerSteps(t.kind)[j] \in {"delete_message", "update_message_text", "insert_message"}

\* a faulty variant of deletion_loop: the answer of check_operation is ignored
RECURSIVE deletion_loop_unprotected(_, _, _, _, _)
deletion_loop_unprotected(chat_id, ids, P, log, st) ==
    IF ids = <<>> THEN [P |-> P, log |-> log, st |-> st, cur |-> 0, rest |-> <<>>]
    ELSE LET st1 == [st EXCEPT !.deletions_received = @ + 1] IN
         IF chat_id = NoChat
         THEN deletion_loop_unprotected(chat_id, Tail(ids), P, log, st1)
         ELSE LET r == check_operation(P, chat_id, now, threshold, window)
                  P1 == [hist |-> r.hist, blk |-> r.blk, stats |-> r.stats]
                  log1 == Append(log, <<now, r.allowed>>) IN
              [P |-> P1, log |-> log1, st |-> st1, cur |-> Head(ids), rest |-> Tail(ids)]

\* the per-id loop of on_message_deleted, run until it awaits delete_message
\* for an id (cur) or the ids are exhausted (cur = 0); db.get_chat_id_for_message
\* does not exist, so an id without a chat is skipped
RECURSIVE deletion_loop(_, _, _, _, _)
deletion_loop(chat_id, ids, P, log, st) ==
    IF ids = <<>> THEN [P |-> P, log |-> log, st |-> st, cur |-> 0, rest |-> <<>>]
    ELSE LET st1 == [st EXCEPT !.deletions_received = @ + 1] IN
         IF chat_id = NoChat
         THEN deletion_loop(chat_id, Tail(ids), P, log, st1)
         ELSE LET r == check_operation(P, chat_id, now, threshold, window)
                  P1 == [hist |-> r.hist, blk |-> r.blk, stats |-> r.stats]
                  log1 == Append(log, <<now, r.allowed>>) IN
              IF r.allowed
              THEN [P |-> P1, log |-> log1, st |-> st1, cur |-> Head(ids), rest |-> Tail(ids)]
              ELSE deletion_loop(chat_id, Tail(ids), P1, log1,
                                 [st1 EXCEPT !.operations_discarded = @ + 1])

\* the state a handler leaves when it runs the deletion loop over ids
RunDeletionLoop(chat_id, ids, others, st) ==
    LET r == deletion_loop(chat_id, ids, Protector,
                           IF chat_id = NoChat THEN <<>> ELSE callLog[chat_id], st) IN
    /\ operation_history' = r.P.hist
    /\ blocked' = r.P.blk
    /\ pstats' = r.P.stats
    /\ callLog' = IF chat_id = NoChat THEN callLog ELSE [callLog EXCEPT ![chat_id] = r.log]
    /\ lstats' = r.st
    /\ tasks' = IF r.cur = 0 THEN others
                ELSE others \cup {Task("delete", chat_id, r.cur, r.rest, 0, 1)}
    /\ writesIssued' = IF r.cur = 0 THEN writesIssued
                       ELSE [writesIssued EXCEPT ![chat_id] = @ + 1]

\* a faulty variant of count_skipped: the event is counted, not its ids
count_skipped_events(st, ids) == [st EXCEPT !.deletions_skipped = @ + 1]

\* on_message_deleted with LISTEN_DELETIONS off: the ids are only counted
count_skipped(st, ids) == [st EXCEPT !.deletions_skipped = @ + Len(ids)]

\* Telegram has assigned the id to a message of the chat (of some chat, when
\* the event names none)
Posted(chat_id, id) ==
    IF chat_id = NoChat THEN \E c \in Chats : id <= upstream[c] ELSE id <= upstream[chat_id]

AllPosted(chat_id, ids) == \A i \in 1..Len(ids) : Posted(chat_id, ids[i])

\* an external event reaches the listener, which starts a handler for it
EventArrives ==
    /\ budget > 0
    /\ budget' = budget - 1
    /\ Cardinality(tasks) < MaxTasks
    /\ UNCHANGED config

\* on_message_deleted, up to its first await
on_message_deleted(chat_id, ids) ==
    /\ EventArrives
    /\ AllPosted(chat_id, ids)
    /\ IF ~config.listen_deletions
       THEN /\ lstats' = count_skipped(lstats, ids)
            /\ UNCHANGED <<operation_history, blocked, pstats, callLog, tasks, writesIssued>>
       ELSE IF chat_id # NoChat /\ ~should_process_chat(tracked_chat_ids, config, chat_id)
       THEN UNCHANGED <<operation_history, blocked, pstats, callLog, tasks, writesIssued, lstats>>
       ELSE RunDeletionLoop(chat_id, ids, tasks, lstats)
    /\ UNCHANGED <<now, threshold, window, storeVars, adapterVars, auxVars, backupVars, tracked_chat_ids, lastPublished, upstream>>

\* on_message_edited, up to its first await
on_message_edited(chat_id, message_id, new_text) ==
    /\ EventArrives
    /\ Posted(chat_id, message_id)
    /\ IF ~config.listen_edits \/ ~should_process_chat(tracked_chat_ids, config, chat_id)
       THEN UNCHANGED <<operation_history, blocked, pstats, callLog, tasks, writesIssued, lstats>>
       ELSE LET r == check_operation(Protector, chat_id, now, threshold, window) IN
            /\ operation_history' = r.hist
            /\ blocked' = r.blk
            /\ pstats' = r.stats
            /\ callLog' = [callLog EXCEPT ![chat_id] = Append(@, <<now, r.allowed>>)]
            /\ IF r.allowed
               THEN /\ lstats' = [lstats EXCEPT !.edits_received = @ + 1]
                    /\ tasks' = tasks \cup {Task("edit", chat_id, message_id, <<>>, new_text, 1)}
                    /\ writesIssued' = [writesIssued EXCEPT ![chat_id] = @ + 1]
               ELSE /\ lstats' = [lstats EXCEPT !.edits_received = @ + 1,
                                                !.operations_discarded = @ + 1]
                    /\ UNCHANGED <<tasks, writesIssued>>
    /\ UNCHANGED <<now, threshold, window, storeVars, adapterVars, auxVars, backupVars, tracked_chat_ids, lastPublished, upstream>>

\* a faulty variant of track: the tracked set is left as it is
track_nothing(tracked, chat_id) == tracked

\* on_new_message: self._tracked_chat_ids.add(chat_id)
track(tracked, chat_id) == tracked \cup {chat_id}

\* on_new_message, up to its first database call: Telegram posts the next
\* message of the chat and the event arrives; event.get_chat() gives the chat
\* entity or None
on_new_message(chat_id, has_entity) ==
    /\ EventArrives
    /\ upstream[chat_id] < MaxMsgId
    /\ upstream' = [upstream EXCEPT ![chat_id] = @ + 1]
    /\ IF should_process_chat(tracked_chat_ids, config, chat_id)
       THEN /\ tracked_chat_ids' = track(tracked_chat_ids, chat_id)
            /\ lstats' = [lstats EXCEPT !.new_messages_received = @ + 1]
            /\ tasks' = IF config.listen_new_messages
                        THEN tasks \cup {Task("new", chat_id, upstream[chat_id] + 1, <<>>, 0,
                                              IF has_entity THEN 1 ELSE 2)}
                        ELSE tasks
       ELSE UNCHANGED <<tracked_chat_ids, lstats, tasks>>
    /\ UNCHANGED <<protectorVars, storeVars, adapterVars, auxVars, backupVars, lastPublished, writesIssued>>

\* on_album, up to its first database call: Telegram posts the messages of
\* the album as the next messages of the chat and the event arrives
on_album(chat_id, ids) ==
    /\ EventArrives
    /\ ids = [i \in 1..Len(ids) |-> upstream[chat_id] + i]
    /\ upstream' = [upstream EXCEPT ![chat_id] = @ + Len(ids)]
    /\ tasks' = IF /\ config.listen_albums
                   /\ should_process_chat(tracked_chat_ids, config, chat_id)
                   /\ config.listen_new_messages
                THEN tasks \cup {Task("album", chat_id, Head(ids), Tail(ids), 0, 1)}
                ELSE tasks
    /\ UNCHANGED <<protectorVars, storeVars, adapterVars, auxVars, backupVars, tracked_chat_ids, lstats,
                   lastPublished, writesIssued>>

\* an awaited call of handler t has returned: the handler goes on to its next
\* await, to its next message, or ends
Resume(t, st) ==
    IF t.pc < Len(HandlerSteps(t.kind))
    THEN /\ tasks' = (tasks \ {t}) \cup {[t EXCEPT !.pc = @ + 1]}
         /\ lstats' = st
         /\ UNCHANGED <<operation_history, blocked, pstats, callLog, writesIssued>>
    ELSE IF t.kind = "delete"
    THEN RunDeletionLoop(t.chat_id, t.rest, tasks \ {t}, st)
    ELSE /\ tasks' = IF t.kind = "album" /\ t.rest # <<>>
                     THEN (tasks \ {t}) \cup
                              {Task("album", t.chat_id, Head(t.rest), Tail(t.rest), 0, 1)}
                     ELSE tasks \ {t}
         /\ lstats' = st
         /\ UNCHANGED <<operation_history, blocked, pstats, callLog, writesIssued>>

\* the handler's except clause: the error is counted and the handler ends
HandlerFails(t) ==
    /\ tasks' = tasks \ {t}
    /\ lstats' = [lstats EXCEPT !.errors = @ + 1]
    /\ UNCHANGED <<operation_history, blocked, pstats, callLog, writesIssued>>

\* db.delete_message of a deletion handler commits
DeleteMessageStep(t) ==
    /\ StepOf(t) = "delete_message"
    /\ messages' = delete_message(messages, t.chat_id, t.message_id)
    /\ reactions' = delete_message_reactions(reactions, t.chat_id, t.message_id)
    /\ Resume(t, [lstats EXCEPT !.deletions_applied = @ + 1])
    /\ UNCHANGED <<now, threshold, window, is_sqlite, chats, sync_status, adapterVars, auxVars,
                   tracked_chat_ids, lastPublished, envVars, backupVars>>

\* db.update_message_text of an edit handler commits
UpdateMessageTextStep(t) ==
    /\ StepOf(t) = "update_message_text"
    /\ messages' = update_message_text(messages, t.chat_id, t.message_id, t.text)
    /\ Resume(t, [lstats EXCEPT !.edits_applied = @ + 1])
    /\ UNCHANGED <<now, threshold, window, is_sqlite, chats, reactions, sync_status,
                   adapterVars, auxVars, tracked_chat_ids, lastPublished, envVars, backupVars>>

\* db.upsert_chat of a new-message or chat-action handler commits
UpsertChatStep(t) ==
    /\ StepOf(t) = "upsert_chat"
    /\ chats' = chats \cup {t.chat_id}
    /\ Resume(t, lstats)
    /\ UNCHANGED <<now, threshold, window, is_sqlite, messages, reactions, sync_status,
                   adapterVars, auxVars, tracked_chat_ids, lastPublished, envVars, backupVars>>

\* db.insert_message of a new-message or album handler commits, or the store
\* rejects the row and the handler's except clause takes over
InsertMessageStep(t) ==
    /\ StepOf(t) = "insert_message"
    /\ IF fk_ok(chats, is_sqlite, t.chat_id)
       THEN /\ messages' = insert_message(messages, chats, is_sqlite,
                                          [id |-> t.message_id, chat_id |-> t.chat_id,
                                           text |-> t.text])
            /\ Resume(t, [lstats EXCEPT !.new_messages_saved = @ + 1])
       ELSE /\ HandlerFails(t)
            /\ UNCHANGED messages
    /\ UNCHANGED <<now, threshold, window, is_sqlite, chats, reactions, sync_status,
                   adapterVars, auxVars, tracked_chat_ids, lastPublished, envVars, backupVars>>

NotificationOf(kind) ==
    CASE kind = "delete" -> "delete"
      [] kind = "edit" -> "edit"
      [] kind = "new" -> "new_message"

\* the handler's notification reaches the viewer
NotifyStep(t) ==
    /\ StepOf(t) = "notify"
    /\ lastPublished' = [type |-> NotificationOf(t.kind), chat_id |-> t.chat_id,
                         message_id |-> t.message_id, after_commit |-> WriteReturned(t)]
    /\ Resume(t, lstats)
    /\ UNCHANGED <<now, threshold, window, storeVars, adapterVars, auxVars, tracked_chat_ids, envVars, backupVars>>

\* the configurations of the listener: every switch on and chat 2 on an include
\* list, or one switch off
ListenerConfigs ==
    {[Config0 EXCEPT !.global_include_ids = {2}],
     [Config0 EXCEPT !.listen_deletions = FALSE],
     [Config0 EXCEPT !.listen_edits = FALSE, !.groups_include_ids = {2}],
     [Config0 EXCEPT !.listen_new_messages = FALSE, !.global_include_ids = {2}]}

\* the listener connects beside a store that holds chat 1 with its messages;
\* chat 2 has none yet; _load_tracked_chats makes the stored chats the tracked ones
InitListener ==
    /\ now = 0
    /\ threshold \in 1..MaxThreshold
    /\ window \in 1..MaxWindow
    /\ operation_history = <<>>
    /\ blocked = <<>>
    /\ pstats = ProtectorStats0
    /\ callLog = [c \in Chats |-> <<>>]
    /\ is_sqlite \in BOOLEAN
    /\ chats = {1}
    /\ messages = {[id |-> i, chat_id |-> 1, text |-> 0] : i \in MsgIds}
    /\ reactions = {}
    /\ sync_status = (1 :> [last_message_id |-> MaxMsgId, message_count |-> MaxMsgId])
    /\ AdapterIdle
    /\ tracked_chat_ids = chats
    /\ lstats = ListenerStats0
    /\ tasks = {}
    /\ lastPublished = NoNotification
    /\ writesIssued = [c \in Chats |-> 0]
    /\ config \in ListenerConfigs
    /\ upstream = [c \in Chats |-> IF c = 1 THEN MaxMsgId ELSE 0]
    /\ budget = MaxListenerEvents
    /\ dialogs = {}
    /\ runs = [r \in RunIds |-> Run0]
    /\ backedUpChats = {}
    /\ AuxIdle

NextListener ==
    \/ Tick
    \/ \E c \in Chats \cup {NoChat}, ids \in IdLists : on_message_deleted(c, ids)
    \/ \E c \in Chats, id \in MsgIds : on_message_edited(c, id, 1)
    \/ \E c \in Chats, e \in BOOLEAN : on_new_message(c, e)
    \/ \E c \in Chats, ids \in IdLists : on_album(c, ids)
    \/ \E t \in tasks : DeleteMessageStep(t)
    \/ \E t \in tasks : UpdateMessageTextStep(t)
    \/ \E t \in tasks : UpsertChatStep(t)
    \/ \E t \in tasks : InsertMessageStep(t)
    \/ \E t \in tasks : NotifyStep(t)

SpecListener == InitListener /\ [][NextListener]_vars

\* the chat actions on_chat_action tells apart: two that update the chat's
\* row, and the membership changes
ActionTypes == {"photo_changed", "title_changed", "user_joined"}

\* on_chat_action, up to its first await (client.get_entity, which gives the
\* entity or fails); its counter stats['chat_actions'] is created on first use
\* and is not among the counters kept here
on_chat_action(chat_id, action_type, has_entity) ==
    /\ EventArrives
    /\ IF config.listen_chat_actions /\ should_process_chat(tracked_chat_ids, config, chat_id)
       THEN tasks' = IF action_type \in {"photo_changed", "title_changed"} /\ has_entity
                     THEN tasks \cup {Task("chat_action", chat_id, 0, <<>>, 0, 1)}
                     ELSE tasks
       ELSE UNCHANGED tasks
    /\ UNCHANGED <<protectorVars, storeVars, adapterVars, auxVars, backupVars,
                   tracked_chat_ids, lstats, lastPublished, writesIssued, upstream>>

\* the listener with every switch on: no include list, or chat 2 on one
FilterListenerConfigs ==
    {Config0, [Config0 EXCEPT !.channels_include_ids = {2}]}

\* the listener connects beside a store that holds chat 1 with its messages
InitListenerFilter ==
    /\ ProtectorIdle
    /\ is_sqlite \in BOOLEAN
    /\ chats = {1}
    /\ messages = {[id |-> i, chat_id |-> 1, text |-> 0] : i \in MsgIds}
    /\ reactions = {}
    /\ sync_status = (1 :> [last_message_id |-> MaxMsgId, message_count |-> MaxMsgId])
    /\ AdapterIdle
    /\ tracked_chat_ids = chats
    /\ lstats = ListenerStats0
    /\ tasks = {}
    /\ lastPublished = NoNotification
    /\ writesIssued = [c \in Chats |-> 0]
    /\ config \in FilterListenerConfigs
    /\ upstream = [c \in Chats |-> IF c = 1 THEN MaxMsgId ELSE 0]
    /\ budget = MaxListenerEvents
    /\ dialogs = {}
    /\ runs = [r \in RunIds |-> Run0]
    /\ backedUpChats = {}
    /\ AuxIdle

\* the five handlers of the listener
NextListenerFilter ==
    \/ NextListener
    \/ \E c \in Chats, a \in ActionTypes, e \in BOOLEAN : on_chat_action(c, a, e)

SpecListenerFilter == InitListenerFilter /\ [][NextListenerFilter]_vars

\* ------------------------------------------------------------------ C2
\* the chat is rate-limited and the clock has not reached blocked_until
BlockedNow(c) == c \in DOMAIN blocked /\ now < blocked[c].blocked_until

\* C2: from the check_operation call that triggers a rate limit for a chat
\* until the clock reaches blocked_until, no check_operation for the chat is
\* allowed and the delete and edit handlers issue no delete_message and no
\* update_message_text for it: a step that starts or ends with the chat blocked
\* adds no allowed call and no issued write.
C2_BlockedChatUntouched ==
    [][\A c \in Chats :
          (BlockedNow(c) \/ BlockedNow(c)') =>
              /\ NumAllowed(callLog'[c]) = NumAllowed(callLog[c])
              /\ writesIssued'[c] = writesIssued[c]]_vars

\* a chat is blocked after an applied write, and a later event for it was denied
\* while the block stood
C2_Witness ==
    \E c \in Chats :
        /\ BlockedNow(c)
        /\ writesIssued[c] >= 1
        /\ \E i \in 1..Len(callLog[c]) :
              /\ ~callLog[c][i][2]
              /\ callLog[c][i][1] > blocked[c].blocked_until - window
        /\ tasks = {}

\* ------------------------------------------------------------------ C3
\* C3: with listen_deletions off, a MessageDeleted event carrying k ids issues
\* no delete_message, adds exactly k to deletions_skipped and leaves the burst
\* protector's history, blocked map and counters as they were; no deletion
\* handler is ever in flight.
C3_DeletionsSkipped ==
    [][~config.listen_deletions =>
          /\ \A t \in tasks' : t.kind # "delete"
          /\ \A c \in Chats \cup {NoChat}, ids \in IdLists :
                on_message_deleted(c, ids) =>
                    /\ lstats'.deletions_skipped = lstats.deletions_skipped + Len(ids)
                    /\ writesIssued' = writesIssued
                    /\ tasks' = tasks
                    /\ UNCHANGED <<operation_history, blocked, pstats, callLog>>
                    /\ UNCHANGED <<messages, reactions>>]_vars

\* two events were skipped, one of them with two ids, and nothing was applied
C3_Witness ==
    /\ ~config.listen_deletions
    /\ lstats.deletions_skipped = 3
    /\ lstats.deletions_applied = 0
    /\ operation_history = <<>>

\* ------------------------------------------------------------------ C8
\* the viewer has just received a notification
Published == lastPublished' # lastPublished

StoredMessage(msgs, chat_id, message_id) ==
    \E m \in msgs : m.chat_id = chat_id /\ m.id = message_id

\* C8 as stated: when the viewer receives a new_message notification, the
\* message it names is in the store.
C8_ReadFindsMessage ==
    [][(Published /\ lastPublished'.type = "new_message") =>
          StoredMessage(messages', lastPublished'.chat_id, lastPublished'.message_id)]_vars

\* C8 amended: every notification is published after the store write that
\* produced it has returned, and the message a new_message notification names
\* is in the store at that moment provided no deletion was applied meanwhile.
C8_PublishedAfterCommit ==
    [][Published =>
          /\ lastPublished'.after_commit
          /\ (lastPublished'.type = "new_message" /\ lstats'.deletions_applied = 0) =>
                StoredMessage(messages', lastPublished'.chat_id, lastPublished'.message_id)]_vars

\* a new_message notification has been received for a message that is stored,
\* in a chat the store did not hold before
C8_Witness ==
    /\ lastPublished.type = "new_message"
    /\ lastPublished.after_commit
    /\ lastPublished.chat_id = 2
    /\ StoredMessage(messages, lastPublished.chat_id, lastPublished.message_id)

\* ================================================================== Config filters
\* the kind of entity behind a chat id: is_user, is_group or is_channel
ChatKind(chat_id) == IF chat_id = 1 THEN "private" ELSE "groups"

\* Config.should_backup_chat_type
should_backup_chat_type(cfg, kind) == kind \in cfg.chat_types

\* a faulty variant of should_backup_chat: the include lists are consulted
\* before the exclude lists
should_backup_chat_includes_first(cfg, chat_id, kind) ==
    IF chat_id \in cfg.global_include_ids THEN TRUE
    ELSE IF kind = "private" /\ chat_id \in cfg.private_include_ids THEN TRUE
    ELSE IF kind = "groups" /\ chat_id \in cfg.groups_include_ids THEN TRUE
    ELSE IF kind = "channels" /\ chat_id \in cfg.channels_include_ids THEN TRUE
    ELSE IF chat_id \in cfg.global_exclude_ids THEN FALSE
    ELSE IF kind = "private" /\ chat_id \in cfg.private_exclude_ids THEN FALSE
    ELSE IF kind = "groups" /\ chat_id \in cfg.groups_exclude_ids THEN FALSE
    ELSE IF kind = "channels" /\ chat_id \in cfg.channels_exclude_ids THEN FALSE
    ELSE should_backup_chat_type(cfg, kind)

\* Config.should_backup_chat: the excludes win over the includes, which win
\* over the chat types
should_backup_chat(cfg, chat_id, kind) ==
    IF chat_id \in cfg.global_exclude_ids THEN FALSE
    ELSE IF kind = "private" /\ chat_id \in cfg.private_exclude_ids THEN FALSE
    ELSE IF kind = "groups" /\ chat_id \in cfg.groups_exclude_ids THEN FALSE
    ELSE IF kind = "channels" /\ chat_id \in cfg.channels_exclude_ids THEN FALSE
    ELSE IF chat_id \in cfg.global_include_ids THEN TRUE
    ELSE IF kind = "private" /\ chat_id \in cfg.private_include_ids THEN TRUE
    ELSE IF kind = "groups" /\ chat_id \in cfg.groups_include_ids THEN TRUE
    ELSE IF kind = "channels" /\ chat_id \in cfg.channels_include_ids THEN TRUE
    ELSE should_backup_chat_type(cfg, kind)

\* ================================================================== TelegramBackup
\* backup_all: a dialog's chat is on an exclude list
is_explicitly_excluded(cfg, chat_id, kind) ==
    \/ chat_id \in cfg.global_exclude_ids
    \/ kind = "private" /\ chat_id \in cfg.private_exclude_ids
    \/ kind = "groups" /\ chat_id \in cfg.groups_exclude_ids
    \/ kind = "channels" /\ chat_id \in cfg.channels_exclude_ids

\* backup_all: the excluded chats among the enumerated dialogs
explicitly_excluded_chat_ids(cfg, seen) ==
    {c \in seen : is_explicitly_excluded(cfg, c, ChatKind(c))}

\* backup_all: the enumerated dialogs that pass the filter
filtered_dialogs(cfg, seen) ==
    {c \in seen : /\ ~is_explicitly_excluded(cfg, c, ChatKind(c))
                  /\ should_backup_chat(cfg, c, ChatKind(c))}

all_include_ids(cfg) ==
    cfg.global_include_ids \cup cfg.private_include_ids
        \cup cfg.groups_include_ids \cup cfg.channels_include_ids

\* backup_all: the include-listed ids to fetch with get_entity
missing_include_ids(cfg, seen) ==
    (all_include_ids(cfg) \ seen) \ explicitly_excluded_chat_ids(cfg, seen)

\* the orders in which a set of chats can be queued
Orders(S) ==
    {q \in SeqsUpTo(S, Cardinality(S)) :
        Len(q) = Cardinality(S) /\ {q[i] : i \in 1..Len(q)} = S}

\* the run has ended: the startup run never starts again, the cron job may
FinishedRun(r) == IF r = "startup" THEN [Run0 EXCEPT !.pc = "done"] ELSE Run0

\* backup_all's loop over the dialogs: the next dialog, or the end of the run
next_dialog(r, run) ==
    IF run.queue = <<>> THEN FinishedRun(r)
    ELSE [run EXCEPT !.pc = "upsert_chat", !.chat = Head(run.queue),
                     !.queue = Tail(run.queue), !.last = 0,
                     !.fetched = <<>>, !.todo = <<>>,
                     !.visited = @ \cup {Head(run.queue)}]

\* a faulty variant of on_dialog_error: the exception ends the run
on_dialog_error_abort(r, run) == FinishedRun(r)

\* backup_all: the except clause around _backup_dialog logs the error and the
\* loop goes on with the next dialog
on_dialog_error(r, run) ==
    next_dialog(r, [run EXCEPT !.failed = @ \cup {run.chat}])

\* backup_all up to its first store write: the dialogs are enumerated and
\* filtered, the missing include-listed chats are fetched (get_entity may fail
\* for any of them), and the dialogs are ordered
backup_all(r) ==
    \E got \in SUBSET missing_include_ids(config, dialogs) :
      \E q \in Orders(filtered_dialogs(config, dialogs) \cup got) :
        LET run == [Run0 EXCEPT !.excluded = explicitly_excluded_chat_ids(config, dialogs),
                                !.queue = q,
                                !.plan = {q[i] : i \in DOMAIN q}] IN
        runs' = [runs EXCEPT ![r] = IF run.excluded # {}
                                    THEN [run EXCEPT !.pc = "delete_excluded"]
                                    ELSE next_dialog(r, run)]

\* run_forever: the initial backup is run once the scheduler has been started
RunInitialBackup ==
    /\ runs["startup"].pc = "ready"
    /\ backup_all("startup")
    /\ UNCHANGED <<protectorVars, storeVars, adapterVars, auxVars, listenerVars, envVars,
                   dialogs, backedUpChats>>

\* the cron trigger fires: _run_backup_job starts unless the job's previous
\* instance is still running
CronFires ==
    /\ budget > 0
    /\ budget' = budget - 1
    /\ runs["cron"].pc = "idle"
    /\ backup_all("cron")
    /\ UNCHANGED <<protectorVars, storeVars, adapterVars, auxVars, listenerVars, config, upstream,
                   dialogs, backedUpChats>>

\* shutil.rmtree(media/<chat_id>)
rmtree(fs, chat_id) ==
    [p \in Paths |-> IF p[1] = chat_id THEN NoFile ELSE fs[p]]

\* a faulty variant of delete_chat_and_related_data: only the tables are
\* purged, the files stay
delete_chat_rows_only(store, chat_id, media_base_exists) ==
    [chats |-> store.chats \ {chat_id},
     messages |-> {m \in store.messages : m.chat_id # chat_id},
     reactions |-> {x \in store.reactions : x.chat_id # chat_id},
     sync_status |-> DictDel(store.sync_status, chat_id),
     media |-> {x \in store.media : x.chat_id # chat_id},
     files |-> store.files,
     avatars |-> store.avatars]

\* DatabaseAdapter.delete_chat_and_related_data: one transaction over the
\* five tables, then the chat's media folder and its avatar files if the
\* media root exists
delete_chat_and_related_data(store, chat_id, media_base_exists) ==
    [chats |-> store.chats \ {chat_id},
     messages |-> {m \in store.messages : m.chat_id # chat_id},
     reactions |-> {x \in store.reactions : x.chat_id # chat_id},
     sync_status |-> DictDel(store.sync_status, chat_id),
     media |-> {x \in store.media : x.chat_id # chat_id},
     files |-> IF media_base_exists THEN rmtree(store.files, chat_id) ELSE store.files,
     avatars |-> IF media_base_exists
                 THEN {a \in store.avatars : a.id # chat_id} ELSE store.avatars]

Store == [chats |-> chats, messages |-> messages, reactions |-> reactions,
          sync_status |-> sync_status, media |-> media, files |-> files,
          avatars |-> avatars]

\* Config.validate made the media root (download_media), or it holds files
media_root_exists ==
    \/ config.download_media
    \/ \E p \in Paths : files[p] # NoFile
    \/ avatars # {}

\* backup_all deletes an excluded chat from the store
DeleteExcludedStep(r) ==
    /\ runs[r].pc = "delete_excluded"
    /\ \E c \in runs[r].excluded :
         LET s == delete_chat_and_related_data(Store, c, media_root_exists)
             left == runs[r].excluded \ {c} IN
         /\ chats' = s.chats
         /\ messages' = s.messages
         /\ reactions' = s.reactions
         /\ sync_status' = s.sync_status
         /\ media' = s.media
         /\ files' = s.files
         /\ avatars' = s.avatars
         /\ runs' = [runs EXCEPT ![r] = IF left = {} THEN next_dialog(r, runs[r])
                                        ELSE [runs[r] EXCEPT !.excluded = left]]
    /\ UNCHANGED <<protectorVars, is_sqlite, adapterVars, decision, upmedia, symlinks,
                   mediaOp, syncPassVars, viewerVars, listenerVars, envVars, dialogs, backedUpChats>>

\* _backup_dialog: upsert_chat commits
BackupUpsertChatStep(r) ==
    /\ runs[r].pc = "upsert_chat"
    /\ chats' = chats \cup {runs[r].chat}
    /\ backedUpChats' = backedUpChats \cup {runs[r].chat}
    /\ runs' = [runs EXCEPT ![r].pc = "read_cursor"]
    /\ UNCHANGED <<protectorVars, is_sqlite, messages, reactions, sync_status, adapterVars, auxVars,
                   listenerVars, envVars, dialogs>>

\* _backup_dialog: the cursor is read
ReadCursorStep(r) ==
    /\ runs[r].pc = "read_cursor"
    /\ runs' = [runs EXCEPT ![r].pc = "fetch",
                            ![r].last = get_last_message_id(sync_status, runs[r].chat)]
    /\ UNCHANGED <<protectorVars, storeVars, adapterVars, auxVars, listenerVars, envVars,
                   dialogs, backedUpChats>>

\* iter_messages(min_id = last, reverse = True): the ids above the cursor, ascending
iter_messages(up, chat_id, min_id) ==
    [i \in 1..Max(up[chat_id] - min_id, 0) |-> min_id + i]

\* _backup_dialog: Telegram returns the messages above the cursor
FetchStep(r) ==
    /\ runs[r].pc = "fetch"
    /\ LET ids == iter_messages(upstream, runs[r].chat, runs[r].last) IN
       runs' = [runs EXCEPT ![r] = IF ids = <<>> THEN next_dialog(r, runs[r])
                                   ELSE [runs[r] EXCEPT !.pc = "insert_batch",
                                                        !.fetched = ids, !.todo = ids]]
    /\ UNCHANGED <<protectorVars, storeVars, adapterVars, auxVars, listenerVars, envVars,
                   dialogs, backedUpChats>>

\* the records _process_message builds for fetched ids
BatchOf(chat_id, ids) == [i \in 1..Len(ids) |-> [id |-> ids[i], chat_id |-> chat_id, text |-> 0]]

\* a faulty variant of after_batch: the cursor is written after the first batch
after_batch_cursor_first(rest) == "update_sync"

\* _backup_dialog after a batch was committed: the loop goes on while messages
\* are left, update_sync_status comes after the last batch
after_batch(rest) == IF rest = <<>> THEN "update_sync" ELSE "insert_batch"

\* _backup_dialog: insert_messages_batch of the next batch_size messages
\* commits, or the store rejects it and backup_all goes on to the next dialog
InsertBatchStep(r) ==
    /\ runs[r].pc = "insert_batch"
    /\ LET n == Min(BatchSize, Len(runs[r].todo))
           B == BatchOf(runs[r].chat, SubSeq(runs[r].todo, 1, n))
           rest == SubSeq(runs[r].todo, n + 1, Len(runs[r].todo)) IN
       IF fk_ok(chats, is_sqlite, runs[r].chat)
       THEN /\ messages' = insert_messages_batch(messages, chats, is_sqlite, B)
            /\ runs' = [runs EXCEPT ![r].todo = rest, ![r].pc = after_batch(rest)]
       ELSE /\ runs' = [runs EXCEPT ![r] = on_dialog_error(r, runs[r])]
            /\ UNCHANGED messages
    /\ UNCHANGED <<protectorVars, is_sqlite, chats, reactions, sync_status, adapterVars, auxVars,
                   listenerVars, envVars, dialogs, backedUpChats>>

\* _backup_dialog: update_sync_status commits the cursor and the count, or the
\* store rejects the row
UpdateSyncStep(r) ==
    /\ runs[r].pc = "update_sync"
    /\ sync_status' = IF fk_ok(chats, is_sqlite, runs[r].chat)
                      THEN update_sync_status(sync_status, runs[r].chat,
                                              runs[r].fetched[Len(runs[r].fetched)],
                                              Len(runs[r].fetched))
                      ELSE sync_status
    /\ runs' = [runs EXCEPT ![r] = next_dialog(r, runs[r])]
    /\ UNCHANGED <<protectorVars, is_sqlite, chats, messages, reactions, adapterVars, auxVars,
                   listenerVars, envVars, dialogs, backedUpChats>>

\* Telegram: a message is posted in a chat while no listener is connected
UpstreamPost(c) ==
    /\ budget > 0
    /\ budget' = budget - 1
    /\ upstream[c] < MaxMsgId
    /\ upstream' = [upstream EXCEPT ![c] = @ + 1]
    /\ UNCHANGED <<protectorVars, storeVars, adapterVars, auxVars, listenerVars, config, backupVars>>

\* the configurations of the backup: no list; chat 2 excluded; chat 2 excluded
\* and included; only private chats, chat 2 included as a group
BackupConfigs ==
    {Config0,
     [Config0 EXCEPT !.global_exclude_ids = {2}],
     [Config0 EXCEPT !.global_exclude_ids = {2}, !.global_include_ids = {2}],
     [Config0 EXCEPT !.chat_types = {"private"}, !.groups_include_ids = {2}]}

\* a Media row as _process_media writes it after a transfer
MediaRow(chat_id, message_id, path, size) ==
    [chat_id |-> chat_id, message_id |-> message_id, file_path |-> path,
     file_size |-> size, downloaded |-> TRUE]

\* a store left by earlier runs: empty (the chats' messages are text), or both
\* chats backed up to message 1, which carried the same file in both chats:
\* one copy in _shared, a symlink in each chat's folder, an avatar per chat
BackedUpStores ==
    {[chats |-> {}, messages |-> {}, reactions |-> {}, sync_status |-> <<>>,
      media |-> {}, files |-> [p \in Paths |-> NoFile], avatars |-> {},
      upmedia |-> [m \in MediaMsgs |-> [name |-> 0, gone |-> FALSE]]],
     [chats |-> Chats,
      messages |-> {[id |-> 1, chat_id |-> c, text |-> 0] : c \in Chats},
      reactions |-> {},
      sync_status |-> [c \in Chats |-> [last_message_id |-> 1, message_count |-> 1]],
      media |-> {MediaRow(c, 1, <<c, 1>>, FullSize) : c \in Chats},
      files |-> [p \in Paths |-> IF p = <<SharedDir, 1>> THEN RegularFile(FullSize)
                                  ELSE IF p[2] = 1 THEN SymLink ELSE NoFile],
      avatars |-> {[type |-> "chats", id |-> c] : c \in Chats}
                    \cup {[type |-> "users", id |-> 1]},
      upmedia |-> [m \in MediaMsgs |-> [name |-> 1, gone |-> FALSE]]]}

\* the scheduler process starts: the cron job is registered and the initial
\* backup is about to run
InitBackup ==
    /\ ProtectorIdle
    /\ is_sqlite \in BOOLEAN
    /\ \E s \in BackedUpStores :
         /\ chats = s.chats
         /\ messages = s.messages
         /\ reactions = s.reactions
         /\ sync_status = s.sync_status
         /\ media = s.media
         /\ files = s.files
         /\ avatars = s.avatars
         /\ upmedia = s.upmedia
    /\ AdapterIdle
    /\ ListenerIdle
    /\ config \in BackupConfigs
    /\ upstream = [c \in Chats |-> 1]
    /\ budget = MaxBackupEvents
    /\ dialogs \in {Chats, {1}}
    /\ runs = [r \in RunIds |-> IF r = "startup" THEN [Run0 EXCEPT !.pc = "ready"] ELSE Run0]
    /\ backedUpChats = {}
    /\ decision = NoDecision
    /\ symlinks = TRUE
    /\ mediaOp = NoMediaOp
    /\ SyncPassIdle
    /\ ViewerIdle

NextBackup ==
    \/ RunInitialBackup
    \/ CronFires
    \/ \E r \in RunIds : DeleteExcludedStep(r)
    \/ \E r \in RunIds : BackupUpsertChatStep(r)
    \/ \E r \in RunIds : ReadCursorStep(r)
    \/ \E r \in RunIds : FetchStep(r)
    \/ \E r \in RunIds : InsertBatchStep(r)
    \/ \E r \in RunIds : UpdateSyncStep(r)
    \/ \E c \in Chats : UpstreamPost(c)

SpecBackup == InitBackup /\ [][NextBackup]_vars

\* the places of _backup_dialog where a Telegram or store call is awaited
DialogSteps == {"upsert_chat", "read_cursor", "fetch", "insert_batch", "update_sync"}

\* _backup_dialog raises: the call a run is waiting for fails
DialogFails(r) ==
    /\ runs[r].pc \in DialogSteps
    /\ runs' = [runs EXCEPT ![r] = on_dialog_error(r, runs[r])]
    /\ UNCHANGED <<protectorVars, storeVars, adapterVars, auxVars, listenerVars, envVars,
                   dialogs, backedUpChats>>

\* the scheduler process with calls that can fail
NextBackupFaults ==
    \/ NextBackup
    \/ \E r \in RunIds : DialogFails(r)

SpecBackupFaults == InitBackup /\ [][NextBackupFaults]_vars

\* ------------------------------------------------------------------ C4
\* C4: the cursor of a chat never decreases when a backup pass sets it: a step
\* that leaves the chat's sync_status row in place leaves get_last_message_id
\* at least as high as it was.
C4_CursorNeverDecreases ==
    [][\A c \in Chats :
          c \in DOMAIN sync_status' =>
              get_last_message_id(sync_status', c) >= get_last_message_id(sync_status, c)]_vars

\* ------------------------------------------------------------------ C10
\* C10: a chat whose id is in global_exclude_ids is never upserted or pulled by
\* a backup run.
C10_GlobalExcludeDropped == backedUpChats \cap config.global_exclude_ids = {}

\* ================================================================== the two processes
\* the configurations of the system: chat 2 on an include list, or excluded
SystemConfigs ==
    {[Config0 EXCEPT !.global_include_ids = {2}],
     [Config0 EXCEPT !.global_exclude_ids = {2}]}

\* the scheduler process and the listener process start beside the same store
Init ==
    /\ ProtectorIdle
    /\ is_sqlite \in BOOLEAN
    /\ \E s \in BackedUpStores :
         /\ chats = s.chats
         /\ messages = s.messages
         /\ reactions = s.reactions
         /\ sync_status = s.sync_status
    /\ AdapterIdle
    /\ tracked_chat_ids = chats
    /\ lstats = ListenerStats0
    /\ tasks = {}
    /\ lastPublished = NoNotification
    /\ writesIssued = [c \in Chats |-> 0]
    /\ config \in SystemConfigs
    /\ upstream = [c \in Chats |-> 1]
    /\ budget = MaxSystemEvents
    /\ dialogs = Chats
    /\ runs = [r \in RunIds |-> IF r = "startup" THEN [Run0 EXCEPT !.pc = "ready"] ELSE Run0]
    /\ backedUpChats = {}
    /\ AuxIdle

\* backup runs beside the listener's new-message and album handlers
Next ==
    \/ RunInitialBackup
    \/ CronFires
    \/ \E r \in RunIds : DeleteExcludedStep(r)
    \/ \E r \in RunIds : BackupUpsertChatStep(r)
    \/ \E r \in RunIds : ReadCursorStep(r)
    \/ \E r \in RunIds : FetchStep(r)
    \/ \E r \in RunIds : InsertBatchStep(r)
    \/ \E r \in RunIds : UpdateSyncStep(r)
    \/ \E c \in Chats, e \in BOOLEAN : on_new_message(c, e)
    \/ \E c \in Chats, ids \in IdLists : on_album(c, ids)
    \/ \E t \in tasks : UpsertChatStep(t)
    \/ \E t \in tasks : InsertMessageStep(t)
    \/ \E t \in tasks : NotifyStep(t)

Spec == Init /\ [][Next]_vars

\* ------------------------------------------------------------------ C9
\* C9: in every reachable store state the chat_id of each Message row is the id
\* of a stored Chat row.
C9_MessageChatExists == \A m \in messages : m.chat_id \in chats

\* ================================================================== Config (filter alone)
\* backup_all: the flags it derives from a dialog's entity; a bot or an
\* unknown entity has none of them
EntityKinds == {"private", "groups", "channels", "none"}

\* _parse_id_list: the id lists an environment can give
IdListInputs == {{}, {1}}

\* Config.__init__: the filters an environment can configure
FilterConfigs ==
    {[Config0 EXCEPT !.global_include_ids = gi, !.global_exclude_ids = ge,
                     !.private_include_ids = pi, !.private_exclude_ids = pe,
                     !.groups_include_ids = gri, !.groups_exclude_ids = gre,
                     !.channels_include_ids = ci, !.channels_exclude_ids = ce,
                     !.chat_types = ct] :
        gi \in IdListInputs, ge \in IdListInputs, pi \in IdListInputs,
        pe \in IdListInputs, gri \in IdListInputs, gre \in IdListInputs,
        ci \in IdListInputs, ce \in IdListInputs,
        ct \in SUBSET {"private", "groups", "channels"}}

\* a call of Config.should_backup_chat
ShouldBackupChatCall(chat_id, kind) ==
    /\ decision' = [chat_id |-> chat_id, kind |-> kind,
                    answer |-> should_backup_chat(config, chat_id, kind)]
    /\ UNCHANGED <<protectorVars, storeVars, adapterVars, listenerVars, envVars,
                   backupVars, mediaVars, syncPassVars, viewerVars>>

InitConfig ==
    /\ ProtectorIdle
    /\ is_sqlite = FALSE
    /\ StoreEmpty
    /\ AdapterIdle
    /\ ListenerIdle
    /\ config \in FilterConfigs
    /\ upstream = [c \in Chats |-> 0]
    /\ budget = 0
    /\ dialogs = {}
    /\ runs = [r \in RunIds |-> Run0]
    /\ backedUpChats = {}
    /\ AuxIdle

NextConfig == \E c \in Chats, k \in EntityKinds : ShouldBackupChatCall(c, k)

SpecConfig == InitConfig /\ [][NextConfig]_vars

\* ------------------------------------------------------------------ C11
\* the exclude list and the include list that apply to an entity of a kind
TypeExcludeIds(cfg, kind) ==
    CASE kind = "private" -> cfg.private_exclude_ids
      [] kind = "groups" -> cfg.groups_exclude_ids
      [] kind = "channels" -> cfg.channels_exclude_ids
      [] OTHER -> {}

TypeIncludeIds(cfg, kind) ==
    CASE kind = "private" -> cfg.private_include_ids
      [] kind = "groups" -> cfg.groups_include_ids
      [] kind = "channels" -> cfg.channels_include_ids
      [] OTHER -> {}

\* the documented rules in their order: whether each applies, and its answer
FilterRules(cfg, chat_id, kind) ==
    << [hit |-> chat_id \in cfg.global_exclude_ids, answer |-> FALSE],
       [hit |-> chat_id \in TypeExcludeIds(cfg, kind), answer |-> FALSE],
       [hit |-> chat_id \in cfg.global_include_ids, answer |-> TRUE],
       [hit |-> chat_id \in TypeIncludeIds(cfg, kind), answer |-> TRUE],
       [hit |-> TRUE, answer |-> kind \in cfg.chat_types] >>

\* the answer of the first rule that applies
FirstMatch(rules) ==
    LET hits == {i \in DOMAIN rules : rules[i].hit}
        first == CHOOSE i \in hits : \A j \in hits : i <= j
    IN rules[first].answer

\* C11: should_backup_chat answers as the first matching rule of the list
\* global exclude -> no, type exclude -> no, global include -> yes, type
\* include -> yes, otherwise yes exactly when the chat's type is in chat_types
C11_FirstMatchWins ==
    decision # NoDecision =>
        decision.answer
            = FirstMatch(FilterRules(config, decision.chat_id, decision.kind))

\* a chat that is on an include list and on an exclude list was refused, and
\* the configuration has no chat types at all
C11_Witness ==
    /\ decision # NoDecision
    /\ decision.kind = "groups"
    /\ decision.chat_id \in config.global_include_ids
    /\ decision.chat_id \in config.groups_exclude_ids
    /\ decision.chat_id \notin config.global_exclude_ids
    /\ config.chat_types = {}
    /\ ~decision.answer

\* ------------------------------------------------------------------ C12
\* nothing of a chat is left: no row in any of the five tables, no entry in
\* media/<chat_id>/ and no avatar file of the chat
Purged(chat_id) ==
    /\ chat_id \notin chats
    /\ \A m \in messages : m.chat_id # chat_id
    /\ \A x \in reactions : x.chat_id # chat_id
    /\ \A x \in media : x.chat_id # chat_id
    /\ chat_id \notin DOMAIN sync_status
    /\ \A n \in FileNames : files[<<chat_id, n>>] = NoFile
    /\ \A a \in avatars : a.id # chat_id

\* what the store and the disk hold of the chats other than chat_id
RestOf(chat_id) ==
    [chats |-> chats \ {chat_id},
     messages |-> {m \in messages : m.chat_id # chat_id},
     reactions |-> {x \in reactions : x.chat_id # chat_id},
     media |-> {x \in media : x.chat_id # chat_id},
     sync_status |-> [c \in DOMAIN sync_status \ {chat_id} |-> sync_status[c]],
     files |-> [p \in {q \in Paths : q[1] # chat_id} |-> files[p]],
     avatars |-> {a \in avatars : a.id # chat_id}]

\* a run has finished deleting its excluded chats
PastDeletion(r) == runs[r].pc \notin {"idle", "ready", "delete_excluded"}

\* C12: once a backup run has deleted the explicitly excluded chats, no Chat,
\* Message, Reaction, Media or SyncStatus row of such a chat is left and its
\* media folder and avatar files are gone; the deletion of a chat leaves the
\* rows and the files of every other chat as they were
C12_ExcludedChatPurged ==
    /\ [](\A r \in RunIds : PastDeletion(r) =>
             \A g \in explicitly_excluded_chat_ids(config, dialogs) : Purged(g))
    /\ [][\A r \in RunIds : DeleteExcludedStep(r) =>
             \E g \in runs[r].excluded : Purged(g)' /\ RestOf(g)' = RestOf(g)]_vars

\* the startup run deleted chat 2, which had rows, a media folder and an
\* avatar; chat 1 still has its rows, its symlink and the shared copy
C12_Witness ==
    /\ runs["startup"].pc = "done"
    /\ 2 \in explicitly_excluded_chat_ids(config, dialogs)
    /\ Purged(2)
    /\ 1 \in chats
    /\ \E x \in media : x.chat_id = 1
    /\ files[<<1, 1>>] = SymLink
    /\ files[<<SharedDir, 1>>] = RegularFile(FullSize)
    /\ [type |-> "chats", id |-> 1] \in avatars

\* ================================================================== Media
\* os.path.exists: a symlink is followed to its target in _shared
exists(fs, p) ==
    \/ fs[p].kind = "file"
    \/ fs[p].kind = "link" /\ fs[<<SharedDir, p[2]>>].kind = "file"

\* os.path.getsize: a symlink is followed
getsize(fs, p) ==
    IF fs[p].kind = "link" THEN fs[<<SharedDir, p[2]>>].size ELSE fs[p].size

\* client.download_media(message, path): the file is written at the path, or
\* at the target when the path is a symlink
download_media(fs, p, size) ==
    IF fs[p].kind = "link" THEN [fs EXCEPT ![<<SharedDir, p[2]>>] = RegularFile(size)]
    ELSE [fs EXCEPT ![p] = RegularFile(size)]

\* os.remove: the entry itself goes, a symlink's target stays
os_remove(fs, p) == [fs EXCEPT ![p] = NoFile]

\* os.symlink succeeds: links are supported and nothing is at the path
can_symlink(fs, p, sym_ok) == sym_ok /\ fs[p].kind = "none"

\* shutil.move(src, dst)
move(fs, src, dst) == [fs EXCEPT ![dst] = fs[src], ![src] = NoFile]

\* DatabaseAdapter.insert_media: an upsert on the media id
insert_media(rows, row) ==
    {x \in rows : ~(x.chat_id = row.chat_id /\ x.message_id = row.message_id)}
        \cup {row}

\* DatabaseAdapter.get_media_for_verification
get_media_for_verification(rows) ==
    {x \in rows : x.downloaded \/ x.file_path # NoPath}

\* _get_media_size: the size Telegram announces for a file
announced_size(name) == FullSize

\* _process_media's try block up to the transfer: whether it has to call
\* client.download_media
needs_transfer(fs, cfg, sym_ok, file_path, shared_file_path) ==
    IF cfg.deduplicate_media
    THEN /\ ~exists(fs, file_path)
         /\ \/ ~exists(fs, shared_file_path)
            \/ ~can_symlink(fs, file_path, sym_ok)
    ELSE ~exists(fs, file_path)

\* _process_media's try block: the files after it, the transfer succeeding
place_file(fs, cfg, sym_ok, file_path, shared_file_path, size) ==
    IF exists(fs, file_path) THEN fs
    ELSE IF ~cfg.deduplicate_media THEN download_media(fs, file_path, size)
    ELSE IF exists(fs, shared_file_path)
         THEN IF can_symlink(fs, file_path, sym_ok)
              THEN [fs EXCEPT ![file_path] = SymLink]
              ELSE download_media(fs, file_path, size)
    ELSE LET got == download_media(fs, shared_file_path, size) IN
         IF can_symlink(got, file_path, sym_ok)
         THEN [got EXCEPT ![file_path] = SymLink]
         ELSE move(got, shared_file_path, file_path)

\* TelegramBackup._process_media for a message that carries the file `name`;
\* ok: client.download_media succeeds if it is called.  The result is the
\* media table, the files and what the returned dictionary says
process_media(rows, fs, cfg, sym_ok, chat_id, message_id, name, ok) ==
    LET file_path == <<chat_id, name>>
        shared_file_path == <<SharedDir, name>>
        size == announced_size(name)
    IN
    IF size > cfg.max_media_size
    THEN [media |-> rows, files |-> fs, outcome |-> "skipped"]
    ELSE IF needs_transfer(fs, cfg, sym_ok, file_path, shared_file_path) /\ ~ok
    THEN [media |-> rows, files |-> fs, outcome |-> "failed"]
    ELSE LET fs1 == place_file(fs, cfg, sym_ok, file_path, shared_file_path, size)
             actual_path == IF cfg.deduplicate_media /\ exists(fs1, shared_file_path)
                            THEN shared_file_path ELSE file_path
             file_size == IF exists(fs1, actual_path) THEN getsize(fs1, actual_path)
                          ELSE size
         IN [media |-> insert_media(rows,
                           MediaRow(chat_id, message_id, file_path, file_size)),
             files |-> fs1, outcome |-> "downloaded"]

\* TelegramListener._download_media: the file goes straight into the chat's
\* folder; no Media row is written
listener_download_media(fs, cfg, chat_id, name, ok) ==
    LET file_path == <<chat_id, name>> IN
    IF announced_size(name) > cfg.max_media_size THEN fs
    ELSE IF exists(fs, file_path) THEN fs
    ELSE IF ok THEN download_media(fs, file_path, announced_size(name))
    ELSE fs

\* _verify_and_redownload_media, phase 1: the record's file is missing
is_missing(fs, record) ==
    record.file_path # NoPath /\ ~exists(fs, record.file_path)

\* _verify_and_redownload_media, phase 1: the record's file is empty or its
\* size is more than 1% off the recorded one
is_corrupted(fs, record) ==
    /\ record.file_path # NoPath
    /\ exists(fs, record.file_path)
    /\ \/ getsize(fs, record.file_path) = 0
       \/ /\ record.file_size > 0
          /\ LET d == getsize(fs, record.file_path) - record.file_size
                 abs == IF d < 0 THEN -d ELSE d
             IN abs * 100 > record.file_size

\* the records of a set in the order of (chat_id, message_id)
InOrder(S) ==
    LET before(x, y) == \/ x.chat_id < y.chat_id
                        \/ x.chat_id = y.chat_id /\ x.message_id <= y.message_id
        rank(x) == Cardinality({y \in S : before(y, x)})
    IN [i \in 1..Cardinality(S) |-> CHOOSE x \in S : rank(x) = i]

\* _verify_and_redownload_media: by_chat, flattened in the order the loops
\* visit it (the chats in the order of their first record)
by_chat(todo) ==
    LET first(i) == CHOOSE j \in 1..Len(todo) :
                       /\ todo[j].chat_id = todo[i].chat_id
                       /\ \A k \in 1..Len(todo) :
                             todo[k].chat_id = todo[i].chat_id => j <= k
        before(i, j) == first(i) < first(j) \/ (first(i) = first(j) /\ i <= j)
        rank(i) == Cardinality({j \in 1..Len(todo) : before(j, i)})
    IN [n \in 1..Len(todo) |-> todo[CHOOSE i \in 1..Len(todo) : rank(i) = n]]

\* _verify_and_redownload_media, phase 2 for one record: a deleted message or
\* one without media is only counted as failed; otherwise the old file is
\* removed and _process_media runs again
redownload(st, cfg, sym_ok, up, record, inaccessible, failing) ==
    LET key == <<record.chat_id, record.message_id>> IN
    IF record.chat_id \in inaccessible THEN st
    ELSE IF key \notin DOMAIN up THEN st
    ELSE IF up[key].gone \/ up[key].name = 0 THEN st
    ELSE LET fs0 == IF exists(st.files, record.file_path)
                    THEN os_remove(st.files, record.file_path) ELSE st.files
             res == process_media(st.media, fs0, cfg, sym_ok, record.chat_id,
                                  record.message_id, up[key].name, key \notin failing)
         IN [media |-> res.media, files |-> res.files]

RECURSIVE redownload_all(_, _, _, _, _, _, _)
redownload_all(st, cfg, sym_ok, up, todo, inaccessible, failing) ==
    IF todo = <<>> THEN st
    ELSE redownload_all(redownload(st, cfg, sym_ok, up, Head(todo), inaccessible, failing),
                        cfg, sym_ok, up, Tail(todo), inaccessible, failing)

\* TelegramBackup._verify_and_redownload_media; inaccessible: the chats whose
\* get_messages raises, failing: the messages whose transfer fails
verify_and_redownload_media(rows, fs, cfg, sym_ok, up, inaccessible, failing) ==
    LET media_records == get_media_for_verification(rows)
        missing_files == InOrder({x \in media_records : is_missing(fs, x)})
        corrupted_files == InOrder({x \in media_records : is_corrupted(fs, x)})
        files_to_redownload == missing_files \o corrupted_files
    IN redownload_all([media |-> rows, files |-> fs], cfg, sym_ok, up,
                      by_chat(files_to_redownload), inaccessible, failing)

\* the media operation that returned; for a verification pass, with the
\* state it started from
MediaOp(op, chat_id, message_id, outcome, inaccessible, failing) ==
    [op |-> op, chat_id |-> chat_id, message_id |-> message_id, outcome |-> outcome,
     files |-> IF op = "verify" THEN files ELSE <<>>,
     media |-> IF op = "verify" THEN media ELSE {},
     failing |-> failing, inaccessible |-> inaccessible]

\* what the media actions leave alone
mediaFrame == <<protectorVars, storeVars, adapterVars, listenerVars, config, upstream,
                backupVars, decision, avatars, symlinks, syncPassVars, viewerVars>>

\* _process_message: the backup engine meets a message with media
ProcessMediaCall(chat_id, message_id, ok) ==
    /\ config.download_media
    /\ <<chat_id, message_id>> \in MediaMsgs
    /\ upmedia[<<chat_id, message_id>>].name # 0
    /\ ~upmedia[<<chat_id, message_id>>].gone
    /\ LET res == process_media(media, files, config, symlinks, chat_id, message_id,
                                upmedia[<<chat_id, message_id>>].name, ok) IN
       /\ media' = res.media
       /\ files' = res.files
       /\ mediaOp' = MediaOp("process_media", chat_id, message_id, res.outcome, {},
                             IF ok THEN {} ELSE {<<chat_id, message_id>>})
    /\ UNCHANGED <<mediaFrame, upmedia, budget>>

\* on_new_message: the listener meets a message with media
ListenerDownloadCall(chat_id, message_id, ok) ==
    /\ config.listen_new_messages_media
    /\ config.download_media
    /\ <<chat_id, message_id>> \in MediaMsgs
    /\ upmedia[<<chat_id, message_id>>].name # 0
    /\ ~upmedia[<<chat_id, message_id>>].gone
    /\ files' = listener_download_media(files, config, chat_id,
                                        upmedia[<<chat_id, message_id>>].name, ok)
    /\ mediaOp' = MediaOp("download_media", chat_id, message_id,
                          IF exists(files', <<chat_id, upmedia[<<chat_id, message_id>>].name>>)
                          THEN "downloaded" ELSE "none", {},
                          IF ok THEN {} ELSE {<<chat_id, message_id>>})
    /\ UNCHANGED <<mediaFrame, media, upmedia, budget>>

\* backup_all: the verification pass at the end of a run
VerifyMediaCall(inaccessible, failing) ==
    /\ config.verify_media
    /\ LET st == verify_and_redownload_media(media, files, config, symlinks, upmedia,
                                             inaccessible, failing) IN
       /\ media' = st.media
       /\ files' = st.files
    /\ mediaOp' = MediaOp("verify", 0, 0, "done", inaccessible, failing)
    /\ UNCHANGED <<mediaFrame, upmedia, budget>>

\* outside the program: a file on disk is cut short
FileTruncated(p, size) ==
    /\ budget > 0
    /\ budget' = budget - 1
    /\ files[p].kind = "file"
    /\ size < files[p].size
    /\ files' = [files EXCEPT ![p] = RegularFile(size)]
    /\ mediaOp' = MediaOp("truncated", 0, 0, "none", {}, {})
    /\ UNCHANGED <<mediaFrame, media, upmedia>>

\* outside the program: a file or a symlink is removed from disk
FileRemoved(p) ==
    /\ budget > 0
    /\ budget' = budget - 1
    /\ files[p] # NoFile
    /\ files' = [files EXCEPT ![p] = NoFile]
    /\ mediaOp' = MediaOp("removed", 0, 0, "none", {}, {})
    /\ UNCHANGED <<mediaFrame, media, upmedia>>

\* Telegram: a message is deleted upstream
MessageGone(m) ==
    /\ budget > 0
    /\ budget' = budget - 1
    /\ ~upmedia[m].gone
    /\ upmedia' = [upmedia EXCEPT ![m].gone = TRUE]
    /\ mediaOp' = MediaOp("gone", m[1], m[2], "none", {}, {})
    /\ UNCHANGED <<mediaFrame, media, files>>

\* the sizes a damaged file can be left with
DamagedSizes == {0, PartSize, NearSize}

\* the media settings: deduplication on or off, the size limit at or below the
\* files' size, the listener downloading media or not
MediaConfigs ==
    {[Config0 EXCEPT !.deduplicate_media = d, !.verify_media = TRUE] : d \in BOOLEAN}
      \cup {[Config0 EXCEPT !.max_media_size = PartSize, !.verify_media = TRUE],
             [Config0 EXCEPT !.listen_new_messages_media = TRUE, !.verify_media = TRUE]}

\* both chats carry a file in their first message: the same file, or two
InitMedia ==
    /\ ProtectorIdle
    /\ is_sqlite = FALSE
    /\ StoreEmpty
    /\ AdapterIdle
    /\ ListenerIdle
    /\ config \in MediaConfigs
    /\ upstream = [c \in Chats |-> 1]
    /\ budget = MaxMediaEvents
    /\ dialogs = Chats
    /\ runs = [r \in RunIds |-> Run0]
    /\ backedUpChats = {}
    /\ decision = NoDecision
    /\ media = {}
    /\ files = [p \in Paths |-> NoFile]
    /\ avatars = {}
    /\ \E n \in FileNames :
         upmedia = [m \in MediaMsgs |-> [name |-> IF m[1] = 1 THEN 1 ELSE n,
                                         gone |-> FALSE]]
    /\ symlinks \in BOOLEAN
    /\ mediaOp = NoMediaOp
    /\ SyncPassIdle
    /\ ViewerIdle

\* the subsets of at most one element
AtMostOne(S) == {{}} \cup {{x} : x \in S}

\* the two ways a file is ingested
NextIngest ==
    \/ \E m \in MediaMsgs, ok \in BOOLEAN : ProcessMediaCall(m[1], m[2], ok)
    \/ \E m \in MediaMsgs, ok \in BOOLEAN : ListenerDownloadCall(m[1], m[2], ok)

NextMedia ==
    \/ NextIngest
    \/ \E inaccessible \in AtMostOne(Chats), failing \in AtMostOne(MediaMsgs) :
          VerifyMediaCall(inaccessible, failing)
    \/ \E p \in Paths, size \in DamagedSizes : FileTruncated(p, size)
    \/ \E p \in Paths : FileRemoved(p)
    \/ \E m \in MediaMsgs : MessageGone(m)

SpecIngest == InitMedia /\ [][NextIngest]_vars

SpecMedia == InitMedia /\ [][NextMedia]_vars

\* ------------------------------------------------------------------ C13
\* the file of a Media row is on disk, not empty and within 1% of file_size
FileMatches(fs, x) ==
    /\ x.file_path # NoPath
    /\ exists(fs, x.file_path)
    /\ getsize(fs, x.file_path) > 0
    /\ LET d == getsize(fs, x.file_path) - x.file_size
           abs == IF d < 0 THEN -d ELSE d
       IN abs * 100 <= x.file_size

\* C13: when _verify_and_redownload_media has completed, every Media row that
\* still says downloaded = 1 has its file on disk, non-empty and within 1% of
\* file_size (the rows it could not recover having been set to downloaded = 0)
C13_DownloadedRowsHaveFiles ==
    mediaOp.op = "verify" => \A x \in media : x.downloaded => FileMatches(files, x)

\* ------------------------------------------------------------------ C14
\* the rows whose file was empty when the verification pass started, whose
\* message is still upstream with its media and whose transfer did not fail
TruncatedAndRecoverable ==
    {x \in mediaOp.media :
        /\ x.downloaded
        /\ x.file_path # NoPath
        /\ exists(mediaOp.files, x.file_path)
        /\ getsize(mediaOp.files, x.file_path) = 0
        /\ ~upmedia[<<x.chat_id, x.message_id>>].gone
        /\ upmedia[<<x.chat_id, x.message_id>>].name = x.file_path[2]
        /\ x.chat_id \notin mediaOp.inaccessible
        /\ <<x.chat_id, x.message_id>> \notin mediaOp.failing}

\* C14: a verification pass re-transfers a file that was truncated to 0 bytes
\* and whose message is still upstream: afterwards the row says downloaded = 1
\* and its file_size is the non-zero size of the file on disk, with
\* deduplicate_media on or off
C14_TruncatedFileRestored ==
    mediaOp.op = "verify" =>
        \A x \in TruncatedAndRecoverable :
            \E y \in media :
                /\ y.chat_id = x.chat_id /\ y.message_id = x.message_id
                /\ y.downloaded
                /\ exists(files, y.file_path)
                /\ y.file_size = getsize(files, y.file_path)
                /\ y.file_size > 0

\* ------------------------------------------------------------------ C15
\* C15: with deduplicate_media on and symlinks available, whatever was
\* ingested by the backup engine or the listener, the only regular files below
\* the media root are in _shared (one per file) and every entry of a chat's
\* folder is a symlink
C15_OneSharedCopy ==
    (config.deduplicate_media /\ symlinks) =>
        \A p \in Paths : p[1] # SharedDir => files[p].kind \in {"none", "link"}

\* ------------------------------------------------------------------ C16
\* C16: when _process_media skips a file over the size limit, or its transfer
\* fails, a Media row with downloaded = 0 is recorded for the message
C16_SkippedRowRecorded ==
    (mediaOp.op = "process_media" /\ mediaOp.outcome \in {"skipped", "failed"}) =>
        \E x \in media :
            /\ x.chat_id = mediaOp.chat_id
            /\ x.message_id = mediaOp.message_id
            /\ ~x.downloaded

\* ================================================================== Deletion and edit sync
\* the chat whose stored messages are synced
SyncChat == 1

\* DatabaseAdapter.get_messages_sync_data: id -> edit_date of the chat's rows
get_messages_sync_data(msgs, dates, chat_id) ==
    [id \in {m.id : m \in {x \in msgs : x.chat_id = chat_id}} |-> dates[id]]

\* the local ids in the order the pass walks them
local_ids_of(local_messages) ==
    LET S == DOMAIN local_messages IN
    [i \in 1..Cardinality(S) |-> CHOOSE id \in S : Cardinality({j \in S : j <= id}) = i]

\* client.get_messages(entity, ids=batch_ids): one entry per id, None for a
\* message that no longer exists
get_messages(rem, batch_ids) == [k \in DOMAIN batch_ids |-> rem[batch_ids[k]]]

\* _sync_deletions_and_edits: one id of a batch against Telegram's answer
sync_message(st, chat_id, msg_id, remote_msg, local_edit_date) ==
    IF ~remote_msg.present
    THEN [st EXCEPT !.messages = delete_message(st.messages, chat_id, msg_id)]
    ELSE IF remote_msg.edit_date # 0 /\ remote_msg.edit_date # local_edit_date
    THEN [messages |-> update_message_text(st.messages, chat_id, msg_id, remote_msg.text),
          edit_dates |-> [st.edit_dates EXCEPT ![msg_id] = remote_msg.edit_date]]
    ELSE st

RECURSIVE sync_messages(_, _, _, _, _)
sync_messages(st, chat_id, batch_ids, remote_messages, local_messages) ==
    IF batch_ids = <<>> THEN st
    ELSE sync_messages(sync_message(st, chat_id, Head(batch_ids), Head(remote_messages),
                                    local_messages[Head(batch_ids)]),
                       chat_id, Tail(batch_ids), Tail(remote_messages), local_messages)

\* a faulty variant of sync_batch: a batch whose query raised is treated as if
\* Telegram had returned None for each of its ids
sync_batch_error_as_null(st, chat_id, batch_ids, rem, local_messages, raised) ==
    sync_messages(st, chat_id, batch_ids,
                  IF raised THEN [k \in DOMAIN batch_ids |-> RemoteMsg(FALSE, 0, 0)]
                  ELSE get_messages(rem, batch_ids),
                  local_messages)

\* _sync_deletions_and_edits: one batch; when get_messages raises, the error
\* is logged and nothing of the batch is touched
sync_batch(st, chat_id, batch_ids, rem, local_messages, raised) ==
    IF raised THEN st
    ELSE sync_messages(st, chat_id, batch_ids, get_messages(rem, batch_ids),
                       local_messages)

\* what the sync actions leave alone
syncFrame == <<protectorVars, is_sqlite, chats, reactions, sync_status, adapterVars,
               listenerVars, config, upstream, backupVars, decision, mediaVars, viewerVars>>

\* _backup_dialog calls _sync_deletions_and_edits: the local ids are read
StartSyncPass ==
    /\ config.sync_deletions_edits
    /\ syncPass.pc = "idle"
    /\ LET local_messages == get_messages_sync_data(messages, edit_dates, SyncChat) IN
       syncPass' = [NoSyncPass EXCEPT
                       !.pc = IF DOMAIN local_messages = {} THEN "done" ELSE "batch",
                       !.local_messages = local_messages,
                       !.local_ids = local_ids_of(local_messages)]
    /\ UNCHANGED <<syncFrame, messages, remote, edit_dates, budget>>

\* _sync_deletions_and_edits: the next batch is queried and applied
SyncBatchStep(raised) ==
    /\ syncPass.pc = "batch"
    /\ LET last == Min(syncPass.next + SyncBatchSize - 1, Len(syncPass.local_ids))
           batch_ids == SubSeq(syncPass.local_ids, syncPass.next, last)
           ids == {batch_ids[k] : k \in DOMAIN batch_ids}
           st == sync_batch([messages |-> messages, edit_dates |-> edit_dates], SyncChat,
                            batch_ids, remote, syncPass.local_messages, raised)
       IN
       /\ messages' = st.messages
       /\ edit_dates' = st.edit_dates
       /\ syncPass' = [syncPass EXCEPT
             !.next = last + 1,
             !.pc = IF last = Len(syncPass.local_ids) THEN "done" ELSE "batch",
             !.returned_null = IF raised THEN @
                               ELSE @ \cup {id \in ids : ~remote[id].present},
             !.raised = IF raised THEN @ \cup ids ELSE @]
    /\ UNCHANGED <<syncFrame, remote, budget>>

\* Telegram: a message of the chat is deleted
RemoteDeleted(id) ==
    /\ budget > 0
    /\ budget' = budget - 1
    /\ remote[id].present
    /\ remote' = [remote EXCEPT ![id] = RemoteMsg(FALSE, 0, 0)]
    /\ UNCHANGED <<syncFrame, messages, edit_dates, syncPass>>

\* Telegram: a message of the chat is edited
RemoteEdited(id) ==
    /\ budget > 0
    /\ budget' = budget - 1
    /\ remote[id].present
    /\ remote[id].edit_date = 0
    /\ remote' = [remote EXCEPT ![id] = RemoteMsg(TRUE, 1, 1)]
    /\ UNCHANGED <<syncFrame, messages, edit_dates, syncPass>>

\* some messages of the chat are stored; some of them are already gone upstream
InitSyncPass ==
    /\ ProtectorIdle
    /\ is_sqlite = FALSE
    /\ chats = {SyncChat}
    /\ \E S \in SUBSET SyncIds :
         messages = {[id |-> id, chat_id |-> SyncChat, text |-> 0] : id \in S}
    /\ reactions = {}
    /\ sync_status = <<>>
    /\ AdapterIdle
    /\ ListenerIdle
    /\ config = [Config0 EXCEPT !.sync_deletions_edits = TRUE]
    /\ upstream = [c \in Chats |-> 0]
    /\ budget = MaxSyncEvents
    /\ dialogs = {SyncChat}
    /\ runs = [r \in RunIds |-> Run0]
    /\ backedUpChats = {}
    /\ decision = NoDecision
    /\ MediaIdle
    /\ ViewerIdle
    /\ \E gone \in SUBSET SyncIds :
         remote = [id \in SyncIds |-> RemoteMsg(id \notin gone, 0, 0)]
    /\ edit_dates = [id \in SyncIds |-> 0]
    /\ syncPass = NoSyncPass

NextSyncPass ==
    \/ StartSyncPass
    \/ \E raised \in BOOLEAN : SyncBatchStep(raised)
    \/ \E id \in SyncIds : RemoteDeleted(id)
    \/ \E id \in SyncIds : RemoteEdited(id)

SpecSyncPass == InitSyncPass /\ [][NextSyncPass]_vars

\* ------------------------------------------------------------------ C17
\* the ids of the chat's stored messages
StoredIds == {m.id : m \in {x \in messages : x.chat_id = SyncChat}}

\* the ids the pass set out to check
PassIds == {syncPass.local_ids[k] : k \in DOMAIN syncPass.local_ids}

\* C17: the pass has deleted exactly the local messages for which Telegram
\* returned None; a message that is still upstream, and a message whose batch
\* query raised, is still stored
C17_DeletesExactlyNulls ==
    /\ PassIds \ StoredIds = syncPass.returned_null
    /\ \A id \in PassIds : remote[id].present => id \in StoredIds
    /\ \A id \in syncPass.raised : id \in StoredIds

\* a finished pass that deleted a message gone upstream, kept one that is
\* still there, and kept one that is gone upstream but whose batch raised
C17_Witness ==
    /\ syncPass.pc = "done"
    /\ syncPass.returned_null # {}
    /\ \E id \in syncPass.raised : ~remote[id].present
    /\ \E id \in StoredIds \ syncPass.raised : remote[id].present

\* ------------------------------------------------------------------ C18
\* the dialogs a run still has in its loop
Queued(r) == {runs[r].queue[i] : i \in DOMAIN runs[r].queue}

\* a run is executing
Running(r) == runs[r].pc \notin {"idle", "ready", "done"}

\* C18: an exception while one chat is backed up does not end the run: every
\* dialog of the run that _backup_dialog has not been called for yet is still
\* in the loop, and the run ends only when the loop has no dialog left
C18_LaterChatsStillBackedUp ==
    /\ [](\A r \in RunIds : Running(r) =>
             runs[r].plan = runs[r].visited \cup Queued(r))
    /\ [][\A r \in RunIds : (Running(r) /\ ~Running(r)') => runs[r].queue = <<>>]_vars

\* the startup run's first dialog raised and the run is storing the messages
\* of the second
C18_Witness ==
    /\ runs["startup"].pc = "update_sync"
    /\ runs["startup"].failed # {}
    /\ runs["startup"].chat \notin runs["startup"].failed
    /\ runs["startup"].visited = Chats

\* ------------------------------------------------------------------ C19
\* C19: at most one backup run is executing in the scheduler process at any
\* time (a cron tick that falls into a run, the startup run included, is
\* skipped)
C19_AtMostOneRun == Cardinality({r \in RunIds : Running(r)}) <= 1

\* ------------------------------------------------------------------ C20
\* the chat is tracked or on one of the include lists
Processable(c) ==
    c \in tracked_chat_ids \cup config.global_include_ids \cup config.private_include_ids
            \cup config.groups_include_ids \cup config.channels_include_ids

\* the rows the store holds for a chat
RowsOf(c) ==
    [chat |-> c \in chats,
     messages |-> {m \in messages : m.chat_id = c},
     reactions |-> {x \in reactions : x.chat_id = c},
     sync_status |-> IF c \in DOMAIN sync_status THEN <<sync_status[c]>> ELSE <<>>]

\* C20: for a chat that is neither tracked nor on an include list, no handler
\* (edit, delete, new message, chat action, album) writes to the store: a
\* step leaves the chat's rows as they are, starts no handler for the chat and
\* does not make the chat tracked
C20_UnprocessedChatUntouched ==
    [][\A c \in Chats : ~Processable(c) =>
          /\ RowsOf(c)' = RowsOf(c)
          /\ \A t \in tasks' : t.chat_id # c
          /\ ~Processable(c)']_vars

\* every event has been handled, a new message in chat 2 among them; chat 2
\* is neither tracked nor included and the store holds nothing of it
C20_Witness ==
    /\ ~Processable(2)
    /\ upstream[2] > 0
    /\ budget = 0
    /\ tasks = {}
    /\ 2 \notin chats
    /\ \A m \in messages : m.chat_id # 2


\* ------------------------------------------------------------------ C21
\* the message is stored in a chat the listener processes
StoredInTrackedChat(c, id) ==
    /\ \E m \in messages : m.id = id /\ m.chat_id = c
    /\ should_process_chat(tracked_chat_ids, config, c)

\* C21: a MessageDeleted event without chat id whose first id is stored in a
\* tracked chat, arriving while the burst protector would allow a deletion in
\* that chat, puts a delete_message for that chat and id in flight (the
\* handler then deletes the row and publishes the delete event).
C21_UnknownChatResolved ==
    [][\A ids \in IdLists, c \in Chats :
          (/\ on_message_deleted(NoChat, ids)
           /\ config.listen_deletions
           /\ StoredInTrackedChat(c, Head(ids))
           /\ check_operation(Protector, c, now, threshold, window).allowed)
          => \E t \in tasks' :
                t.kind = "delete" /\ t.chat_id = c /\ t.message_id = Head(ids)]_vars


\* ------------------------------------------------- the viewer (web/main.py)
\* chat_id in subscribed_chats or not subscribed_chats
eligible(subscribed_chats, chat_id) ==
    chat_id \in subscribed_chats \/ subscribed_chats = {}

\* len(self.active_connections)
dict_len(ac) == Cardinality(DOMAIN ac.subs)

\* ConnectionManager.connect: self.active_connections[websocket] = set()
connect(ac, ws) == [order |-> Append(ac.order, ws), subs |-> DictPut(ac.subs, ws, {})]

\* ConnectionManager.disconnect for each websocket of S: del where present
disconnect_all(ac, S) ==
    [order |-> [i \in DOMAIN ac.order |-> IF ac.order[i] \in S THEN 0 ELSE ac.order[i]],
     subs |-> [s \in DOMAIN ac.subs \ S |-> ac.subs[s]]]

\* ConnectionManager.disconnect
disconnect(ac, ws) == disconnect_all(ac, {ws})

\* ConnectionManager.subscribe
subscribe(ac, ws, chat_id) ==
    IF ws \in DOMAIN ac.subs
    THEN [ac EXCEPT !.subs[ws] = @ \cup {chat_id}]
    ELSE ac

\* ConnectionManager.unsubscribe
unsubscribe(ac, ws, chat_id) ==
    IF ws \in DOMAIN ac.subs
    THEN [ac EXCEPT !.subs[ws] = @ \ {chat_id}]
    ELSE ac

\* the loop of broadcast_to_chat: the next entry after position pos of the
\* dict whose subscription set passes the test (0: the iterator is exhausted)
next_entry(ac, pos, chat_id) ==
    LET hits == {i \in (pos + 1)..Len(ac.order) :
                    /\ ac.order[i] # 0
                    /\ eligible(ac.subs[ac.order[i]], chat_id)}
    IN IF hits = {} THEN 0 ELSE CHOOSE i \in hits : \A j \in hits : i <= j

\* a broadcast_to_chat call suspended in send_json: n is the push it serves,
\* pos the iterator's position, used the dict's length when the iteration
\* began; steady are the websockets that were connected, open and passing the
\* test at the call and have stayed so
Broadcast(n, chat_id, type, used, steady) ==
    [n |-> n, chat_id |-> chat_id, type |-> type, pos |-> 0, used |-> used,
     disconnected |-> {}, steady |-> steady, sent |-> {}]

\* the broadcast ended: what it was called for and what it sent
Ended(b, raised) ==
    [n |-> b.n, chat_id |-> b.chat_id, steady |-> b.steady, sent |-> b.sent,
     raised |-> raised]

\* broadcast_to_chat from the point where the dict iterator is asked for its
\* next item up to the next send_json, or its end. The iterator raises
\* RuntimeError when the dict's length differs from the length at the start;
\* handle_realtime_notification sends the Web Push (the push manager is
\* enabled) after a new_message broadcast that returned
RunBroadcast(b, others) ==
    LET ac == active_connections IN
    IF dict_len(ac) # b.used
    THEN /\ broadcasts' = others
         /\ lastBroadcast' = Ended(b, TRUE)
         /\ UNCHANGED <<active_connections, delivered, pushSent>>
    ELSE LET i == next_entry(ac, b.pos, b.chat_id) IN
         IF i = 0
         THEN /\ active_connections' = disconnect_all(ac, b.disconnected)
              /\ broadcasts' = others
              /\ lastBroadcast' = Ended(b, FALSE)
              /\ pushSent' = IF b.type = "new_message" THEN pushSent \cup {b.n} ELSE pushSent
              /\ UNCHANGED delivered
         ELSE LET ws == ac.order[i] IN
              /\ IF ws \in alive
                 THEN /\ delivered' = [delivered EXCEPT ![ws] = @ \cup {<<b.chat_id, b.n>>}]
                      /\ broadcasts' = others \cup {[b EXCEPT !.pos = i, !.sent = @ \cup {ws}]}
                 ELSE /\ broadcasts' = others \cup {[b EXCEPT !.pos = i, !.disconnected = @ \cup {ws}]}
                      /\ UNCHANGED delivered
              /\ UNCHANGED <<active_connections, lastBroadcast, pushSent>>

\* the websockets of S stop being steady recipients of the broadcasts in flight
Unsteady(bs, S) == {[b EXCEPT !.steady = @ \ S] : b \in bs}

\* a request reaches the viewer
WebEvent ==
    /\ budget > 0
    /\ budget' = budget - 1
    /\ UNCHANGED <<protectorVars, storeVars, adapterVars, listenerVars, config, upstream,
                   backupVars, decision, mediaVars, syncPassVars, display_chat_ids,
                   lifecycle, pureVars>>

\* the kinds of notification the listener posts
PushTypes == {"new_message", "delete"}

\* the client hosts a POST may come from; the first three are local
Hosts == {"127.0.0.1", "::1", "localhost", "10.0.0.5"}

LocalHosts == {"127.0.0.1", "::1", "localhost"}

\* POST /internal/push: the host test ends in pass, the payload goes to
\* handle_http_push -> handle_realtime_notification -> broadcast_to_chat,
\* which runs up to its first send_json
internal_push(host, chat_id, type) ==
    /\ WebEvent
    /\ Len(pushes) < MaxPushes
    /\ pushes' = Append(pushes, [host |-> host, chat_id |-> chat_id, type |-> type])
    /\ LET ac == active_connections
           steady == {ws \in DOMAIN ac.subs \cap alive : eligible(ac.subs[ws], chat_id)}
       IN RunBroadcast(Broadcast(Len(pushes) + 1, chat_id, type, dict_len(ac), steady),
                       broadcasts)
    /\ UNCHANGED <<alive, response>>

\* a suspended send_json returns and the broadcast goes on
BroadcastResumes(b) ==
    /\ b \in broadcasts
    /\ RunBroadcast(b, broadcasts \ {b})
    /\ UNCHANGED <<protectorVars, storeVars, adapterVars, listenerVars, envVars,
                   backupVars, decision, mediaVars, syncPassVars>>
    /\ UNCHANGED <<display_chat_ids, alive, pushes, response, lifecycle, pureVars>>

\* websocket_endpoint: a client connects to /ws/updates
WsConnect ==
    /\ WebEvent
    /\ Len(active_connections.order) < NumSessions
    /\ LET ws == Len(active_connections.order) + 1 IN
        /\ active_connections' = connect(active_connections, ws)
        /\ alive' = alive \cup {ws}
    /\ UNCHANGED <<broadcasts, delivered, pushes, pushSent, lastBroadcast, response>>

\* websocket_endpoint: {"action": "subscribe", "chat_id": c}
WsSubscribe(ws, chat_id) ==
    /\ WebEvent
    /\ ws \in DOMAIN active_connections.subs \cap alive
    /\ IF display_chat_ids # {} /\ chat_id \notin display_chat_ids
       THEN UNCHANGED <<active_connections, broadcasts>>
       ELSE /\ active_connections' = subscribe(active_connections, ws, chat_id)
            /\ broadcasts' = Unsteady(broadcasts, {ws})
    /\ UNCHANGED <<alive, delivered, pushes, pushSent, lastBroadcast, response>>

\* websocket_endpoint: {"action": "unsubscribe", "chat_id": c}
WsUnsubscribe(ws, chat_id) ==
    /\ WebEvent
    /\ ws \in DOMAIN active_connections.subs \cap alive
    /\ active_connections' = unsubscribe(active_connections, ws, chat_id)
    /\ broadcasts' = Unsteady(broadcasts, {ws})
    /\ UNCHANGED <<alive, delivered, pushes, pushSent, lastBroadcast, response>>

\* the client of a websocket goes away
ClientLeaves(ws) ==
    /\ WebEvent
    /\ ws \in alive
    /\ alive' = alive \ {ws}
    /\ broadcasts' = Unsteady(broadcasts, {ws})
    /\ UNCHANGED <<active_connections, delivered, pushes, pushSent, lastBroadcast, response>>

\* websocket_endpoint: receive_json raises WebSocketDisconnect
WsDisconnect(ws) ==
    /\ ws \in DOMAIN active_connections.subs \ alive
    /\ active_connections' = disconnect(active_connections, ws)
    /\ UNCHANGED <<protectorVars, storeVars, adapterVars, listenerVars, envVars,
                   backupVars, decision, mediaVars, syncPassVars>>
    /\ UNCHANGED <<display_chat_ids, alive, broadcasts, delivered, pushes, pushSent,
                   lastBroadcast, response, lifecycle, pureVars>>

\* the test each per-chat endpoint starts with
access_denied(display, chat_id) == display # {} /\ chat_id \notin display

\* GET /api/chats: the listing, filtered in display mode
get_chats ==
    /\ WebEvent
    /\ response' = [endpoint |-> "chats", chat_id |-> 0, status |-> 200,
                    chats |-> IF display_chat_ids # {}
                              THEN {c \in chats : c \in display_chat_ids}
                              ELSE chats]
    /\ UNCHANGED <<active_connections, alive, broadcasts, delivered, pushes, pushSent,
                   lastBroadcast>>

\* the endpoints under /api/chats/{chat_id}
PerChatEndpoints == {"messages", "stats", "by-date", "export"}

\* get_messages, get_chat_stats, get_message_by_date, export_chat: 403 in
\* display mode for a chat outside the list, the chat's data otherwise
per_chat_endpoint(endpoint, chat_id) ==
    /\ WebEvent
    /\ response' = IF access_denied(display_chat_ids, chat_id)
                   THEN [endpoint |-> endpoint, chat_id |-> chat_id, status |-> 403,
                         chats |-> {}]
                   ELSE [endpoint |-> endpoint, chat_id |-> chat_id, status |-> 200,
                         chats |-> {chat_id}]
    /\ UNCHANGED <<active_connections, alive, broadcasts, delivered, pushes, pushSent,
                   lastBroadcast>>

\* the viewer starts beside a store that holds both chats, in display mode
\* (chat 1 only) or without restriction
InitWeb ==
    /\ ProtectorIdle
    /\ is_sqlite = TRUE
    /\ chats = Chats
    /\ messages = {[id |-> 1, chat_id |-> c, text |-> 0] : c \in Chats}
    /\ reactions = {}
    /\ sync_status = <<>>
    /\ AdapterIdle
    /\ ListenerIdle
    /\ config = Config0
    /\ upstream = [c \in Chats |-> 0]
    /\ budget = MaxWebEvents
    /\ dialogs = {}
    /\ runs = [r \in RunIds |-> Run0]
    /\ backedUpChats = {}
    /\ decision = NoDecision
    /\ MediaIdle
    /\ SyncPassIdle
    /\ display_chat_ids \in {{}, {1}}
    /\ active_connections = ActiveConnections0
    /\ alive = {}
    /\ broadcasts = {}
    /\ delivered = [s \in Sessions |-> {}]
    /\ pushes = <<>>
    /\ pushSent = {}
    /\ lastBroadcast = NoBroadcast
    /\ response = NoResponse
    /\ lifecycle = NoListener
    /\ PureIdle

NextWeb ==
    \/ \E h \in Hosts, c \in Chats, t \in PushTypes : internal_push(h, c, t)
    \/ \E b \in broadcasts : BroadcastResumes(b)
    \/ WsConnect
    \/ \E ws \in Sessions, c \in Chats : WsSubscribe(ws, c)
    \/ \E ws \in Sessions, c \in Chats : WsUnsubscribe(ws, c)
    \/ \E ws \in Sessions : ClientLeaves(ws)
    \/ \E ws \in Sessions : WsDisconnect(ws)
    \/ get_chats
    \/ \E e \in PerChatEndpoints, c \in Chats : per_chat_endpoint(e, c)

SpecWeb == InitWeb /\ [][NextWeb]_vars

\* ------------------------------------------------------------------ C22
\* C22: a broadcast_to_chat(c, m) call that has ended sent m to every
\* websocket that was connected, open and passing the subscription test
\* (empty set, or c in it) from the call to its end.
C22_BroadcastReachesSubscribers ==
    lastBroadcast.steady \subseteq lastBroadcast.sent


\* ------------------------------------------------------------------ C23
\* C23: in display mode no viewer interface hands out data of a chat outside
\* display_chat_ids: not the chat listing, not a per-chat endpoint (403), and
\* no update sent to a /ws/updates session, whatever it subscribed to.
C23_DisplayModeConfines ==
    display_chat_ids # {} =>
        /\ response.chats \subseteq display_chat_ids
        /\ \A ws \in Sessions : \A d \in delivered[ws] : d[1] \in display_chat_ids

\* ------------------------------------------------------------------ C24
\* C24: a POST to /internal/push from a host other than 127.0.0.1, ::1 or
\* localhost causes no WebSocket send and no Web Push notification.
C24_NonLocalPushIgnored ==
    /\ \A ws \in Sessions : \A d \in delivered[ws] : pushes[d[2]].host \in LocalHosts
    /\ \A n \in pushSent : pushes[n].host \in LocalHosts


\* ------------------------------------------- TelegramListener: start and stop
\* MassOperationProtector.get_stats: the dict it returns
get_stats(st, blk, t) ==
    [operations_applied |-> st.operations_applied,
     operations_blocked |-> st.operations_blocked,
     rate_limits_triggered |-> st.rate_limits_triggered,
     chats_rate_limited |-> Cardinality(st.chats_rate_limited),
     currently_blocked |-> Cardinality({c \in DOMAIN blk : t < blk[c].blocked_until})]

\* the keys _log_stats reads from the protector's stats
LoggedKeys == {"bursts_detected", "operations_discarded", "chats_protected"}

\* _log_stats: nothing without a start time; with one it reads the protector's
\* stats, and a key the dict lacks raises KeyError
log_stats(l, protector_stats) ==
    IF l.start_time /\ ~(LoggedKeys \subseteq DOMAIN protector_stats)
    THEN [l EXCEPT !.raised = "KeyError"]
    ELSE l

\* TelegramListener.stop: disconnect a client the listener owns and that is
\* connected, then _log_stats
stop(l, protector_stats) ==
    LET l1 == [l EXCEPT !.running = FALSE, !.was_connected = l.connected]
        l2 == IF l1.has_client /\ l1.owns_client /\ l1.connected
              THEN [l1 EXCEPT !.connected = FALSE, !.client_disconnected = @ + 1]
              ELSE l1
    IN log_stats(l2, protector_stats)

\* TelegramListener.close: stop, then db.close(); an exception of stop leaves close
close(l, protector_stats) ==
    LET l1 == stop([l EXCEPT !.raised = "none"], protector_stats) IN
    IF l1.raised # "none"
    THEN [l1 EXCEPT !.phase = "closed"]
    ELSE [l1 EXCEPT !.phase = "closed", !.db_closed = @ + 1]

\* TelegramListener.__init__ with a client of the caller (connected or not),
\* or without one
NewListeners ==
    {[NoListener EXCEPT !.kind = "listener", !.phase = "new", !.has_client = TRUE,
                        !.connected = c] : c \in BOOLEAN}
    \cup {[NoListener EXCEPT !.kind = "listener", !.phase = "new", !.owns_client = TRUE]}

\* TelegramBackup.__init__ with a client of the caller (connected or not), or
\* without one
NewBackups == {[l EXCEPT !.kind = "backup"] : l \in NewListeners}

\* a faulty variant of backup_disconnect: the client is disconnected whoever owns it
backup_disconnect_any(l) ==
    IF l.has_client
    THEN [l EXCEPT !.phase = "disconnected", !.connected = FALSE,
                   !.client_disconnected = @ + 1]
    ELSE [l EXCEPT !.phase = "disconnected"]

\* TelegramBackup.disconnect: only a client the instance made is disconnected
backup_disconnect(l) ==
    IF l.has_client /\ l.owns_client
    THEN [l EXCEPT !.phase = "disconnected", !.connected = FALSE,
                   !.client_disconnected = @ + 1]
    ELSE [l EXCEPT !.phase = "disconnected"]

\* TelegramBackup.connect: a shared client must be connected; otherwise the
\* instance makes its own client and connects it, and an unauthorized session
\* raises
backup_connect(l, authorized) ==
    IF l.has_client /\ ~l.owns_client
    THEN IF l.connected
         THEN [l EXCEPT !.phase = "connected"]
         ELSE [l EXCEPT !.raised = "RuntimeError", !.phase = "failed"]
    ELSE LET l1 == [l EXCEPT !.has_client = TRUE, !.owns_client = TRUE, !.connected = TRUE]
         IN IF authorized THEN [l1 EXCEPT !.phase = "connected"]
            ELSE [l1 EXCEPT !.raised = "RuntimeError", !.phase = "failed"]

lifecycleFrame ==
    <<storeVars, adapterVars, listenerVars, envVars, backupVars, decision, mediaVars,
      syncPassVars, webVars, pureVars>>

\* TelegramListener.connect: a shared client must be connected; otherwise the
\* listener makes its own client and connects it
ListenerConnect ==
    /\ lifecycle.kind = "listener"
    /\ lifecycle.phase = "new"
    /\ lifecycle' =
         IF lifecycle.has_client /\ ~lifecycle.owns_client
         THEN IF lifecycle.connected
              THEN [lifecycle EXCEPT !.phase = "connected"]
              ELSE [lifecycle EXCEPT !.raised = "RuntimeError", !.phase = "failed"]
         ELSE [lifecycle EXCEPT !.phase = "connected", !.has_client = TRUE,
                                !.owns_client = TRUE, !.connected = TRUE]
    /\ UNCHANGED <<protectorVars, lifecycleFrame>>

\* TelegramListener.run up to run_until_disconnected
ListenerRun ==
    /\ lifecycle.kind = "listener"
    /\ lifecycle.phase = "connected"
    /\ lifecycle' = [lifecycle EXCEPT !.phase = "running", !.running = TRUE,
                                      !.start_time = TRUE]
    /\ UNCHANGED <<protectorVars, lifecycleFrame>>

\* a handler of the running listener asks the protector
ListenerCheckOperation(chat_id) ==
    /\ lifecycle.phase = "running"
    /\ CheckOperationCall(chat_id)

\* run_until_disconnected returns (the connection dropped) or is cancelled;
\* the finally block of run ends in _log_stats
ListenerRunEnds(dropped) ==
    /\ lifecycle.phase = "running"
    /\ lifecycle' = log_stats([lifecycle EXCEPT !.phase = "ran", !.running = FALSE,
                                                !.connected = ~dropped],
                              get_stats(pstats, blocked, now))
    /\ UNCHANGED <<protectorVars, lifecycleFrame>>

\* run_listener's finally block, or any other caller: TelegramListener.close
ListenerClose ==
    /\ lifecycle.kind = "listener"
    /\ lifecycle.phase \in {"new", "failed", "connected", "running", "ran"}
    /\ lifecycle' = close(lifecycle, get_stats(pstats, blocked, now))
    /\ UNCHANGED <<protectorVars, lifecycleFrame>>

\* run_backup: backup.connect()
BackupConnect(authorized) ==
    /\ lifecycle.kind = "backup"
    /\ lifecycle.phase = "new"
    /\ lifecycle' = backup_connect(lifecycle, authorized)
    /\ UNCHANGED <<protectorVars, lifecycleFrame>>

\* the connection of the client drops while the backup uses it
BackupClientDrops ==
    /\ lifecycle.kind = "backup"
    /\ lifecycle.phase = "connected"
    /\ lifecycle.connected
    /\ lifecycle' = [lifecycle EXCEPT !.connected = FALSE]
    /\ UNCHANGED <<protectorVars, lifecycleFrame>>

\* run_backup's finally block: backup.disconnect()
BackupDisconnect ==
    /\ lifecycle.kind = "backup"
    /\ lifecycle.phase \in {"connected", "failed"}
    /\ lifecycle' = backup_disconnect(lifecycle)
    /\ UNCHANGED <<protectorVars, lifecycleFrame>>

InitLifecycle ==
    /\ now = 0
    /\ threshold = 1
    /\ window \in 1..MaxWindow
    /\ operation_history = <<>>
    /\ blocked = <<>>
    /\ pstats = ProtectorStats0
    /\ callLog = [c \in Chats |-> <<>>]
    /\ is_sqlite = TRUE
    /\ StoreEmpty
    /\ AdapterIdle
    /\ ListenerIdle
    /\ config = Config0
    /\ upstream = [c \in Chats |-> 0]
    /\ budget = 0
    /\ dialogs = {}
    /\ runs = [r \in RunIds |-> Run0]
    /\ backedUpChats = {}
    /\ decision = NoDecision
    /\ MediaIdle
    /\ SyncPassIdle
    /\ WebIdle
    /\ lifecycle \in NewListeners \cup NewBackups
    /\ PureIdle

NextLifecycle ==
    \/ ListenerConnect
    \/ ListenerRun
    \/ Tick
    \/ \E c \in Chats : ListenerCheckOperation(c)
    \/ \E d \in BOOLEAN : ListenerRunEnds(d)
    \/ ListenerClose
    \/ \E a \in BOOLEAN : BackupConnect(a)
    \/ BackupClientDrops
    \/ BackupDisconnect

SpecLifecycle == InitLifecycle /\ [][NextLifecycle]_vars

\* ------------------------------------------------------------------ C25
\* C25: once close() was called the database adapter has been closed exactly
\* once, and the client was disconnected exactly when the listener owned a
\* client that was connected - whether run() had started or not.
C25_CloseClosesDatabase ==
    lifecycle.phase = "closed" =>
        /\ lifecycle.db_closed = 1
        /\ lifecycle.client_disconnected =
              (IF lifecycle.has_client /\ lifecycle.owns_client /\ lifecycle.was_connected
               THEN 1 ELSE 0)


\* ------------------------------------------------ backup_all: dialog order
\* the sequences over S up to length n
RECURSIVE DistinctSeqs(_, _)
DistinctSeqs(S, n) ==
    IF n = 0 THEN {<<>>}
    ELSE LET shorter == DistinctSeqs(S, n - 1) IN
         shorter \cup {Append(q, x) : q \in shorter, x \in S}

\* the texts PRIORITY_CHAT_IDS may hold: each id at most once
PriorityInputs(S, n) ==
    {q \in DistinctSeqs(S, n) : \A i, j \in DOMAIN q : i # j => q[i] # q[j]}

\* Config._parse_id_list: the ids of the comma-separated text, as a set
parse_id_list(id_str) == {id_str[i] : i \in DOMAIN id_str}

\* dialog_sort_key: (not is_priority, -timestamp); a dialog without date
\* (0) takes datetime.min, the smallest timestamp
dialog_sort_key(d, priority_ids, dates) ==
    <<IF d \in priority_ids THEN 0 ELSE 1, 0 - dates[d]>>

\* the comparison of two key tuples
KeyBefore(k1, k2) == k1[1] < k2[1] \/ (k1[1] = k2[1] /\ k1[2] < k2[2])

\* filtered_dialogs.sort(key=dialog_sort_key): a stable sort
sort_dialogs(lst, priority_ids, dates) ==
    LET n == Len(lst)
        key(i) == dialog_sort_key(lst[i], priority_ids, dates)
        rank(i) == 1 + Cardinality({j \in 1..n :
                          \/ KeyBefore(key(j), key(i))
                          \/ (key(j) = key(i) /\ j < i)})
    IN [r \in 1..n |-> lst[CHOOSE i \in 1..n : rank(i) = r]]

\* backup_all sorts the dialogs it is about to process
SortDialogs ==
    /\ ~dialogSort.done
    /\ dialogSort' =
         [dialogSort EXCEPT
            !.order = sort_dialogs(dialogSort.listing,
                                   parse_id_list(dialogSort.priority_input),
                                   dialogSort.dates),
            !.done = TRUE]
    /\ UNCHANGED <<protectorVars, storeVars, adapterVars, listenerVars, envVars, backupVars,
                   decision, mediaVars, syncPassVars, webVars, lifecycle,
                   message_dates, dateCall, avatar_dir, found, retry>>

\* PRIORITY_CHAT_IDS as written (up to two ids), the dialogs as Telegram lists
\* them, and each dialog's date of last activity (0: none)
InitDialogOrder ==
    /\ ProtectorIdle
    /\ is_sqlite = TRUE
    /\ StoreEmpty
    /\ AdapterIdle
    /\ ListenerIdle
    /\ config = Config0
    /\ upstream = [c \in Chats |-> 0]
    /\ budget = 0
    /\ dialogs = {}
    /\ runs = [r \in RunIds |-> Run0]
    /\ backedUpChats = {}
    /\ decision = NoDecision
    /\ MediaIdle
    /\ SyncPassIdle
    /\ WebIdle
    /\ lifecycle = NoListener
    /\ message_dates = <<>>
    /\ dateCall = NoDateCall
    /\ avatar_dir = {}
    /\ found = NoFound
    /\ retry = NoRetry
    /\ \E pr \in PriorityInputs(DialogIds, 2), ds \in [DialogIds -> 0..MaxDate],
          ls \in {[i \in DialogIds |-> i], [i \in DialogIds |-> NumDialogs + 1 - i]} :
         dialogSort = [priority_input |-> pr, listing |-> ls, dates |-> ds,
                       order |-> <<>>, done |-> FALSE]

NextDialogOrder == SortDialogs

SpecDialogOrder == InitDialogOrder /\ [][NextDialogOrder]_vars

\* ------------------------------------------------------------------ C26
\* the position of a dialog in the list
IndexIn(seq, x) == CHOOSE i \in DOMAIN seq : seq[i] = x

\* C26: in the order backup_all processes the dialogs, the priority-listed
\* dialogs come before all others, they follow the order of their ids in
\* PRIORITY_CHAT_IDS, and the others are in descending order of last activity.
C26_PriorityThenRecency ==
    dialogSort.done =>
        LET order == dialogSort.order
            prio == parse_id_list(dialogSort.priority_input) IN
        \A i, j \in DOMAIN order :
            i < j =>
                /\ order[j] \in prio => order[i] \in prio
                /\ (order[i] \in prio /\ order[j] \in prio) =>
                      IndexIn(dialogSort.priority_input, order[i])
                          < IndexIn(dialogSort.priority_input, order[j])
                /\ (order[i] \notin prio /\ order[j] \notin prio) =>
                      dialogSort.dates[order[i]] >= dialogSort.dates[order[j]]


\* ----------------------------------------------- the adapter's datetimes
MaxWall == 1

MaxOffset == 1

\* the datetimes a caller may pass: naive, or aware with an offset of some hours
DateInputs ==
    {Naive(w) : w \in 0..MaxWall}
    \cup {Aware(w, o) : w \in 0..MaxWall, o \in (0 - MaxOffset)..MaxOffset}

\* _strip_tz: None stays None, an aware datetime loses its tzinfo
\* (dt.replace(tzinfo=None) keeps the wall clock reading), a naive one is kept
strip_tz(dt) ==
    IF dt.none THEN dt
    ELSE IF dt.aware THEN [dt EXCEPT !.aware = FALSE, !.offset = 0]
    ELSE dt

\* the values insert_message builds for the two datetime columns
date_values(m) == [date |-> strip_tz(m.date), edit_date |-> strip_tz(m.edit_date)]

\* the message fields that carry datetimes
DateRow(id, date, edit_date) == [id |-> id, date |-> date, edit_date |-> edit_date]

dateFrame ==
    <<protectorVars, storeVars, adapterVars, listenerVars, envVars, backupVars,
      decision, mediaVars, syncPassVars, webVars, lifecycle, dialogSort, avatar_dir, found,
      retry>>

\* insert_message: the upsert writes both columns
InsertMessageDates(m) ==
    /\ message_dates' = DictPut(message_dates, m.id, date_values(m))
    /\ dateCall' = [op |-> "insert_message", rows |-> <<m>>]
    /\ UNCHANGED dateFrame

\* insert_messages_batch: the same values for each message of the list
InsertBatchDates(m1, m2) ==
    /\ m1.id # m2.id
    /\ message_dates' = DictPut(DictPut(message_dates, m1.id, date_values(m1)),
                                m2.id, date_values(m2))
    /\ dateCall' = [op |-> "insert_messages_batch", rows |-> <<m1, m2>>]
    /\ UNCHANGED dateFrame

\* update_message_text: UPDATE ... SET edit_date = _strip_tz(edit_date)
UpdateMessageDates(id, edit_date) ==
    /\ message_dates' = IF id \in DOMAIN message_dates
                        THEN [message_dates EXCEPT ![id].edit_date = strip_tz(edit_date)]
                        ELSE message_dates
    /\ dateCall' = [op |-> "update_message_text", rows |-> <<DateRow(id, NoneDate, edit_date)>>]
    /\ UNCHANGED dateFrame

InitDates ==
    /\ ProtectorIdle
    /\ is_sqlite = TRUE
    /\ StoreEmpty
    /\ AdapterIdle
    /\ ListenerIdle
    /\ config = Config0
    /\ upstream = [c \in Chats |-> 0]
    /\ budget = 0
    /\ dialogs = {}
    /\ runs = [r \in RunIds |-> Run0]
    /\ backedUpChats = {}
    /\ decision = NoDecision
    /\ MediaIdle
    /\ SyncPassIdle
    /\ WebIdle
    /\ lifecycle = NoListener
    /\ dialogSort = NoDialogSort
    /\ message_dates = <<>>
    /\ dateCall = NoDateCall
    /\ avatar_dir = {}
    /\ found = NoFound
    /\ retry = NoRetry

NextDates ==
    \/ \E id \in MsgIds, d \in DateInputs, e \in DateInputs \cup {NoneDate} :
          InsertMessageDates(DateRow(id, d, e))
    \/ \E d1, d2 \in DateInputs, e \in DateInputs \cup {NoneDate} :
          InsertBatchDates(DateRow(1, d1, NoneDate), DateRow(2, d2, e))
    \/ \E id \in MsgIds, e \in DateInputs \cup {NoneDate} : UpdateMessageDates(id, e)

SpecDates == InitDates /\ [][NextDates]_vars

\* ------------------------------------------------------------------ C27
\* the naive datetime that denotes the instant of an aware one in UTC
InUTC(dt) == Naive(dt.wall - dt.offset)

\* C27: after insert_message, insert_messages_batch or update_message_text
\* every aware datetime the call carried is stored as the naive datetime of
\* the same instant in UTC.
C27_StoredAsUTC ==
    \A k \in DOMAIN dateCall.rows :
        LET m == dateCall.rows[k] IN
        m.id \in DOMAIN message_dates =>
            /\ m.date.aware => message_dates[m.id].date = InUTC(m.date)
            /\ m.edit_date.aware => message_dates[m.id].edit_date = InUTC(m.edit_date)


\* ------------------------------------------------ the viewer's avatar lookup
NumPhotos == 2

MaxMtime == 2

\* photo id 0 names the legacy file <chat_id>.jpg, photo id p the file
\* <chat_id>_<p>.jpg
LegacyPhoto == 0

\* 'users' if chat_type == 'private' else 'chats'
avatar_folder(chat_type) == IF chat_type = "private" THEN "users" ELSE "chats"

ChatTypes == {"private", "group"}

\* chat 1 is a user, chat 2 a group: the folder a chat's avatars are stored in
FolderOf(chat_id) == IF chat_id = 1 THEN "users" ELSE "chats"

AvatarFile(chat_id, photo_id, mtime) ==
    [folder |-> FolderOf(chat_id), chat_id |-> chat_id, photo_id |-> photo_id, mtime |-> mtime]

\* glob.glob(<avatar_dir>/<chat_id>_*.jpg): the legacy name has no underscore
glob_matches(dir, folder, chat_id) ==
    {f \in dir : f.folder = folder /\ f.chat_id = chat_id /\ f.photo_id # LegacyPhoto}

\* the files max(matches, key=os.path.getmtime) may return
newest(matches) == {f \in matches : \A g \in matches : g.mtime <= f.mtime}

PathOf(f) == [folder |-> f.folder, chat_id |-> f.chat_id, photo_id |-> f.photo_id]

\* _find_avatar_path: the answers it may give (None without a match)
find_avatar_path(dir, chat_id, chat_type) ==
    LET folder == avatar_folder(chat_type)
        matches == glob_matches(dir, folder, chat_id)
    IN IF ~(\E f \in dir : f.folder = folder) THEN {NoAvatarPath}
       ELSE IF matches # {} THEN {PathOf(f) : f \in newest(matches)}
       ELSE {NoAvatarPath}

avatarFrame ==
    <<protectorVars, storeVars, adapterVars, listenerVars, envVars, backupVars,
      decision, mediaVars, syncPassVars, webVars, lifecycle, dialogSort,
      message_dates, dateCall, retry>>

\* an avatar file is written, or written again, with a modification time
TouchAvatar(chat_id, photo_id, mtime) ==
    /\ avatar_dir' = {f \in avatar_dir : ~(f.chat_id = chat_id /\ f.photo_id = photo_id)}
                     \cup {AvatarFile(chat_id, photo_id, mtime)}
    /\ found' = NoFound
    /\ UNCHANGED avatarFrame

\* an avatar file is removed
RemoveAvatar(f) ==
    /\ f \in avatar_dir
    /\ avatar_dir' = avatar_dir \ {f}
    /\ found' = NoFound
    /\ UNCHANGED avatarFrame

\* a call of _find_avatar_path(chat_id, chat_type)
FindAvatarPath(chat_id, chat_type) ==
    /\ \E path \in find_avatar_path(avatar_dir, chat_id, chat_type) :
          found' = [called |-> TRUE, chat_id |-> chat_id, chat_type |-> chat_type,
                    path |-> path]
    /\ UNCHANGED avatar_dir
    /\ UNCHANGED avatarFrame

InitAvatars ==
    /\ ProtectorIdle
    /\ is_sqlite = TRUE
    /\ StoreEmpty
    /\ AdapterIdle
    /\ ListenerIdle
    /\ config = Config0
    /\ upstream = [c \in Chats |-> 0]
    /\ budget = 0
    /\ dialogs = {}
    /\ runs = [r \in RunIds |-> Run0]
    /\ backedUpChats = {}
    /\ decision = NoDecision
    /\ MediaIdle
    /\ SyncPassIdle
    /\ WebIdle
    /\ lifecycle = NoListener
    /\ dialogSort = NoDialogSort
    /\ message_dates = <<>>
    /\ dateCall = NoDateCall
    /\ avatar_dir = {}
    /\ found = NoFound
    /\ retry = NoRetry

NextAvatars ==
    \/ \E c \in Chats, p \in 0..NumPhotos, t \in 1..MaxMtime : TouchAvatar(c, p, t)
    \/ \E f \in avatar_dir : RemoveAvatar(f)
    \/ \E c \in Chats, t \in ChatTypes : FindAvatarPath(c, t)

SpecAvatars == InitAvatars /\ [][NextAvatars]_vars

\* ------------------------------------------------------------------ C28
\* C28: _find_avatar_path(chat_id, type) answers with a newest-mtime file
\* among the <chat_id>_*.jpg files of the type's folder when there is one, and
\* with the legacy file <chat_id>.jpg when there is none but that file exists.
C28_NewestElseLegacy ==
    found.called =>
        LET folder == avatar_folder(found.chat_type)
            matches == glob_matches(avatar_dir, folder, found.chat_id)
            legacy == {f \in avatar_dir : /\ f.folder = folder
                                         /\ f.chat_id = found.chat_id
                                         /\ f.photo_id = LegacyPhoto} IN
        /\ matches # {} => found.path \in {PathOf(f) : f \in newest(matches)}
        /\ (matches = {} /\ legacy # {}) => found.path \in {PathOf(f) : f \in legacy}


\* ------------------------------------------------------------------ C29
\* the allowed calls logged for a chat with a timestamp in [a, a + window]
AllowedWithin(c, a) ==
    {i \in 1..Len(callLog[c]) :
        /\ callLog[c][i][2]
        /\ a <= callLog[c][i][1]
        /\ callLog[c][i][1] <= a + window}

\* C29: for every chat and every interval of `window` seconds, at most
\* `threshold` of the check_operation calls stamped inside the interval were
\* allowed, whatever was called before, blocks that expired included.
C29_WindowCapped ==
    \A c \in Chats : \A a \in 0..MaxTime :
        Cardinality(AllowedWithin(c, a)) <= threshold

\* a call was allowed, the next one set off a block, and after the block's end
\* a call for the chat was allowed again
C29_Witness ==
    \E c \in Chats :
        /\ threshold >= 1
        /\ \E i, j, k \in 1..Len(callLog[c]) :
              /\ i < j /\ j < k
              /\ callLog[c][i][2] /\ ~callLog[c][j][2] /\ callLog[c][k][2]
              /\ callLog[c][k][1] >= callLog[c][j][1] + window


\* ------------------------------------------------------------------ C30
\* the clock keeps running
SpecProtectorFair == SpecProtector /\ WF_vars(Tick)

\* the stored block of the chat ended before now
BlockOver(c) == c \in DOMAIN blocked /\ now > blocked[c].blocked_until

\* C30: with a threshold of at least one, a check_operation that arrives
\* strictly after the chat's blocked_until is allowed; a call denied while the
\* chat is blocked leaves the chat's FIFO and blocked_until as they were; and
\* a block that ends within the modelled time does end.
C30_BlockEnds ==
    /\ [][\A c \in Chats :
             CheckOperationCall(c) =>
                 /\ (BlockOver(c) /\ threshold >= 1) => callLog'[c][Len(callLog'[c])][2]
                 /\ BlockedNow(c) =>
                       /\ ~callLog'[c][Len(callLog'[c])][2]
                       /\ operation_history' = operation_history
                       /\ blocked' = blocked]_vars
    /\ \A c \in Chats :
          [](BlockedNow(c) /\ blocked[c].blocked_until <= MaxTime => <>(~BlockedNow(c)))

\* a call set off a block, another was denied while it stood, and a call
\* strictly after blocked_until was allowed
C30_Witness ==
    \E c \in Chats :
        \E i, j, k \in 1..Len(callLog[c]) :
            /\ i < j /\ j < k
            /\ ~callLog[c][i][2] /\ ~callLog[c][j][2] /\ callLog[c][k][2]
            /\ callLog[c][j][1] < callLog[c][i][1] + window
            /\ callLog[c][k][1] > callLog[c][i][1] + window
            /\ pstats.rate_limits_triggered = 1


\* ------------------------------------------------------------------ C31
\* the elements of a sequence
Range(seq) == {seq[i] : i \in DOMAIN seq}

\* the pass of run r has fetched the id and insert_messages_batch has not yet
\* returned for it
Uncommitted(r) == Range(runs[r].todo)

\* the pass of run r ends in this step before it has called update_sync_status:
\* the run is past the dialog (the next one, or done) without the cursor step
PassEndsEarly(r) ==
    /\ runs[r].pc \in DialogSteps \ {"update_sync"}
    /\ runs'[r].pc \notin {"read_cursor", "fetch", "insert_batch", "update_sync"}
    /\ runs'[r] # runs[r]

\* C31: when update_sync_status sets the cursor of the chat a pass works on to
\* x, insert_messages_batch has returned for every message the pass fetched
\* with id <= x; and a step in which the pass fails or ends before that point
\* leaves sync_status as it was.
C31_CursorAfterBatches ==
    [][\A r \in RunIds :
          /\ (UpdateSyncStep(r) /\ sync_status' # sync_status) =>
                \A id \in Range(runs[r].fetched) :
                    id <= get_last_message_id(sync_status', runs[r].chat)
                        => id \notin Uncommitted(r)
          /\ (PassEndsEarly(r) \/ DialogFails(r)) => sync_status' = sync_status]_vars

\* a pass committed two batches and then moved the cursor over both, while
\* another chat's pass failed and left no cursor
C31_Witness ==
    \E c \in Chats : \E d \in Chats \ {c} :
        /\ get_last_message_id(sync_status, c) = 2
        /\ sync_status[c].message_count = 2
        /\ \A id \in 1..2 : \E m \in messages : m.chat_id = c /\ m.id = id
        /\ \E r \in RunIds : d \in runs[r].failed
        /\ d \notin DOMAIN sync_status


\* ------------------------------------------------------------------ C32
\* the event of handler t arrived before the event of handler u: Telegram
\* sends the edit or deletion of a message after the message itself
ArrivedBefore(t, u) ==
    /\ t.kind \in {"new", "album"}
    /\ u.kind \in {"edit", "delete"}
    /\ t.chat_id = u.chat_id
    /\ t.message_id = u.message_id

\* C32: the store writes of two events of the same chat are applied in the
\* events' arrival order: when the write of an edit or deletion handler is
\* applied, no handler of an earlier event of that chat on the same message
\* still has its own write ahead of it.
C32_WritesInArrivalOrder ==
    [][\A u \in tasks :
          (UpdateMessageTextStep(u) \/ DeleteMessageStep(u)) =>
              ~\E t \in tasks : ArrivedBefore(t, u) /\ ~WriteReturned(t)]_vars


\* ------------------------------------------------------------------ C33
\* C33: a broadcast_to_chat that was suspended in a send while sessions
\* connected or disconnected, or while another broadcast ran, completes
\* without error.
C33_BroadcastCompletes == ~lastBroadcast.raised


\* ------------------------------------------------------------------ C34
\* the instance was constructed with a client of the caller
ExternalClient(l) == l.has_client /\ ~l.owns_client

\* C34: an instance constructed with an externally supplied client never calls
\* disconnect on it, and its connect leaves the client's connection as it
\* found it; an instance that has called disconnect on a client made that
\* client itself.
C34_SharedClientNotDisconnected ==
    /\ [](/\ ExternalClient(lifecycle) => lifecycle.client_disconnected = 0
          /\ lifecycle.client_disconnected > 0 => lifecycle.owns_client)
    /\ [][(ExternalClient(lifecycle) /\ lifecycle.phase = "new") =>
              lifecycle'.connected = lifecycle.connected]_vars

\* a backup with the caller's connected client has run disconnect(), or a
\* listener with one has run close(): the client is still connected
C34_Witness ==
    /\ ExternalClient(lifecycle)
    /\ lifecycle.phase \in {"disconnected", "closed"}
    /\ lifecycle.connected


\* ------------------------------------------------------------------ C35
\* C35: when run() has ended, by cancellation or because the client
\* disconnected, it has not raised an error.
C35_RunEndsQuietly ==
    (lifecycle.kind = "listener" /\ lifecycle.phase = "ran") => lifecycle.raised = "none"


\* ------------------------------------------------------------------ C36
\* C36 as stated: after any NewMessage event for chat c has been handled, c is
\* in the listener's tracked set.
C36_AlwaysTracked ==
    [][\A c \in Chats, e \in BOOLEAN :
          on_new_message(c, e) => c \in tracked_chat_ids']_vars

\* C36, amended: after a NewMessage event for a chat c that is tracked or on an
\* explicit include list has been handled, c is in the tracked set, whether or
\* not listen_new_messages is enabled; an event for any other chat leaves the
\* tracked set as it was.
C36_TrackedWhenAdmitted ==
    [][\A c \in Chats, e \in BOOLEAN :
          on_new_message(c, e) =>
              IF should_process_chat(tracked_chat_ids, config, c)
              THEN c \in tracked_chat_ids'
              ELSE tracked_chat_ids' = tracked_chat_ids]_vars

\* with listen_new_messages off, a NewMessage event of included chat 2 has put
\* the chat into the tracked set
C36_Witness ==
    /\ ~config.listen_new_messages
    /\ upstream[2] > 0
    /\ 2 \in tracked_chat_ids


\* ------------------------------------------ retry_on_locked (db/adapter.py)
\* the defaults of retry_on_locked; the delays are in milliseconds
max_retries == 5

initial_delay == 100

max_delay == 2000

backoff_factor == 2

\* the write operations of the adapter
AdapterWrites ==
    {"upsert_chat", "insert_messages_batch", "insert_reactions", "update_sync_status",
     "insert_message", "delete_message", "update_message_text", "upsert_user",
     "insert_media", "set_metadata"}

\* the methods that carry @retry_on_locked()
Decorated == {"upsert_chat", "insert_messages_batch", "insert_reactions", "update_sync_status"}

\* what one execution of the method's body gives: it returns, or it raises an
\* error whose text holds "locked", holds "connection", or holds neither
Outcomes == {"ok", "locked", "connection", "other"}

\* 'locked' in error_str or 'connection' in error_str
is_transient(e) == e \in {"locked", "connection"}

\* a faulty variant of next_delay: the delay is not raised
next_delay_fixed(delay) == delay

\* delay = min(delay * backoff_factor, max_delay)
next_delay(delay) == Min(delay * backoff_factor, max_delay)

\* one pass of the wrapper's loop: func is awaited and gives outcome e
wrapper(r, e) ==
    LET r1 == [r EXCEPT !.outcomes = Append(@, e)]
        attempt == Len(r.outcomes) IN
    IF e = "ok" THEN [r1 EXCEPT !.state = "returned"]
    ELSE IF ~is_transient(e) THEN [r1 EXCEPT !.state = "raised"]
    ELSE IF attempt < max_retries
    THEN [r1 EXCEPT !.slept = Append(@, r.delay), !.delay = next_delay(r.delay)]
    ELSE [r1 EXCEPT !.state = "raised"]

\* a method without the decorator: what its body gives is what the caller gets
undecorated(r, e) ==
    [r EXCEPT !.outcomes = Append(@, e),
              !.state = IF e = "ok" THEN "returned" ELSE "raised"]

retryFrame ==
    <<protectorVars, storeVars, adapterVars, listenerVars, envVars, backupVars,
      decision, mediaVars, syncPassVars, webVars, lifecycle, dialogSort,
      message_dates, dateCall, avatar_dir, found>>

\* a caller awaits a write operation of the adapter
AdapterWriteCall(op) ==
    /\ retry.state = "idle"
    /\ retry' = [NoRetry EXCEPT !.op = op, !.delay = initial_delay, !.state = "running"]
    /\ UNCHANGED retryFrame

\* the body of the method runs once more and returns or raises
AdapterAttempt(e) ==
    /\ retry.state = "running"
    /\ retry' = IF retry.op \in Decorated THEN wrapper(retry, e) ELSE undecorated(retry, e)
    /\ UNCHANGED retryFrame

InitRetry ==
    /\ ProtectorIdle
    /\ is_sqlite = TRUE
    /\ StoreEmpty
    /\ AdapterIdle
    /\ ListenerIdle
    /\ config = Config0
    /\ upstream = [c \in Chats |-> 0]
    /\ budget = 0
    /\ dialogs = {}
    /\ runs = [r \in RunIds |-> Run0]
    /\ backedUpChats = {}
    /\ decision = NoDecision
    /\ MediaIdle
    /\ SyncPassIdle
    /\ WebIdle
    /\ lifecycle = NoListener
    /\ PureIdle

NextRetry ==
    \/ \E op \in AdapterWrites : AdapterWriteCall(op)
    \/ \E e \in Outcomes : AdapterAttempt(e)

SpecRetry == InitRetry /\ [][NextRetry]_vars

\* ------------------------------------------------------------------ C37
\* the sleeps between attempts, in milliseconds
ClaimedSleeps == <<100, 200, 400, 800, 1600>>

\* the call has ended by re-raising the error of its last attempt
Raised(r) == r.state = "raised"

\* C37: a call wrapped by retry_on_locked invokes the operation at most 6
\* times and sleeps 0.1, 0.2, 0.4, 0.8 and 1.6 s between consecutive attempts;
\* it returns at the first successful attempt, re-raises a transient error only
\* after the 6th attempt failed, and re-raises a non-transient error at once:
\* every attempt before the last one failed with a transient error, and a
\* call that ended has slept once per attempt but the last.
C37_RetryOnLocked ==
    retry.op \in Decorated =>
        LET n == Len(retry.outcomes) IN
        /\ n <= 6
        /\ retry.slept = SubSeq(ClaimedSleeps, 1, Len(retry.slept))
        /\ Len(retry.slept) = (IF retry.state = "running" THEN n ELSE n - 1)
        /\ \A i \in 1..(n - 1) : is_transient(retry.outcomes[i])
        /\ retry.state = "returned" <=> (n > 0 /\ retry.outcomes[n] = "ok")
        /\ Raised(retry) <=>
              (n > 0 /\ \/ retry.outcomes[n] = "other"
                        \/ (is_transient(retry.outcomes[n]) /\ n = 6))

\* a wrapped call failed six times with a transient error, slept five times
\* and re-raised
C37_Witness ==
    /\ retry.op \in Decorated
    /\ Raised(retry)
    /\ Len(retry.outcomes) = 6
    /\ is_transient(retry.outcomes[6])
    /\ retry.slept = ClaimedSleeps

\* ------------------------------------------------------------------ C38
\* C38: a write operation of the adapter whose body fails with a transient
\* 'locked' or 'connection' error is tried again: the error of a first attempt
\* is not what the caller gets.
C38_TransientRetried ==
    (/\ retry.op \in AdapterWrites
     /\ Raised(retry)
     /\ is_transient(retry.outcomes[Len(retry.outcomes)]))
        => Len(retry.outcomes) > 1


\* ------------------------------------------------------------------ C39
\* C39: once a session that had subscribed to chat c has sent unsubscribe for
\* c, broadcast_to_chat does not select it for events of c (until it
\* subscribes to c again), even when c was its only subscription.
C39_UnsubscribedNotSelected ==
    [][\A ws \in Sessions, c \in Chats :
          (WsUnsubscribe(ws, c) /\ c \in active_connections.subs[ws]) =>
              ~eligible(active_connections'.subs[ws], c)]_vars


\* ------------------------------------------------------------------ C40
\* the store holds a Chat or a Message row of the chat
HasRows(g) == g \in chats \/ \E m \in messages : m.chat_id = g

\* C40: once a backup run has deleted the explicitly excluded chats, the store
\* holds no Chat or Message row of such a chat while it stays excluded.
C40_ExcludedStaysPurged ==
    \A r \in RunIds : PastDeletion(r) =>
        \A g \in explicitly_excluded_chat_ids(config, dialogs) : ~HasRows(g)

====
